---- MODULE Spec2Model ----
(***************************************************************************)
(* A model of the @lcui/react compiler: the symbolic binding layer         *)
(* (binding.ts), the string formatter (fmt.ts), the state and reference    *)
(* hooks (useState.ts, useRef.ts) and the component compiler               *)
(* (compile.tsx).  Generated C statements are kept as the strings the      *)
(* code builds, contexts are heap objects addressed by identifiers, and    *)
(* the context stack is the sequence of those identifiers.                 *)
(***************************************************************************)
EXTENDS Integers, Sequences, FiniteSets, TLC

VARIABLES
    pc,           \* position of the compile process
    contextList,  \* binding.ts: let contextList: FunctionContext[]
    ctxs,         \* the Context objects reachable from contextList, by identity
    comp,         \* compile's local `ctx`: identity of its ComponentContext
    nextUid,      \* identity given to the next Binding object
    widgets,      \* the WidgetInstance objects made by useRef(), in creation order
    frames,       \* activation records of transformReactNode, innermost last
    elems,        \* elements the tree walk has entered in this compile
    hcall,        \* activation record of call(handler, ctx), or NoCall
    invoked,      \* how many times each handler function was invoked by this compile
    seenProps,    \* the event props this compile has handed to transformEventHandler
    fmtLog,       \* argument lists of the fmt calls made by the last step
    ops,          \* primitive operations performed by the component function / current handler
    compiles,     \* compile calls started so far
    replaced,     \* the stack that the last setComponentContext replaced
    result,       \* value returned by the last compile, or NoResult
    pairBase,     \* stack before the last pushFunctionComponent
    pairCtx,      \* its argument
    pairPc,       \* "none" | "pushed" | "popped"
    program,      \* the component function handed to compile: what its code does
    previous,     \* value returned by the previous compile of the same program
    outside       \* outcome of the last hook call made while no compile is running

vars == <<pc, contextList, ctxs, comp, nextUid, widgets, frames, elems, hcall, invoked,
          seenProps, fmtLog, ops, compiles, replaced, result, pairBase, pairCtx, pairPc,
          program, previous, outside>>

(***************************************************************************)
(* Bounds of the exploration.                                              *)
(***************************************************************************)
MaxOutsideCalls == 2
MaxCompiles == 2
MaxRenderOps == 2
MaxHandlerOps == 2
MaxElems == 3
MaxStack == 5
NumHandlerFns == 2
MaxFmtArgs == 2
MaxChildren == 2

(***************************************************************************)
(* JavaScript values handed to the library by the component's code.        *)
(***************************************************************************)
Null == [t |-> "null"]
Undefined == [t |-> "undefined"]
Str(s) == [t |-> "string", s |-> s]
Num(n) == [t |-> "number", n |-> n]
Bool(b) == [t |-> "boolean", b |-> b]
Bind(o) == [t |-> "binding", o |-> o]
PlainObject == [t |-> "object"]

isObjectBinding(val) == val.t = "binding"

\* `${value}` for a number, a boolean
TemplateString(val) ==
    CASE val.t = "number" -> ToString(val.n)
      [] val.t = "boolean" -> (IF val.b THEN "true" ELSE "false")
      [] val.t = "string" -> val.s
      [] OTHER -> val.t

JSONstringify(s) == "\"" \o s \o "\""

RECURSIVE Join(_, _)
Join(list, sep) ==
    IF Len(list) = 0 THEN ""
    ELSE IF Len(list) = 1 THEN list[1]
    ELSE list[1] \o sep \o Join(Tail(list), sep)

StartsWith(line, prefix) ==
    /\ Len(line) >= Len(prefix)
    /\ SubSeq(line, 1, Len(prefix)) = prefix

EndsWith(line, suffix) ==
    /\ Len(line) >= Len(suffix)
    /\ SubSeq(line, Len(line) - Len(suffix) + 1, Len(line)) = suffix

Map(list, Op(_)) == [i \in 1..Len(list) |-> Op(list[i])]

\* const v = ...; the statements K that follow use v
With(v, K(_)) == K(v)

(***************************************************************************)
(* binding.ts: initializer expressions and Binding objects.                *)
(***************************************************************************)
cNumericTypes == {"Int", "Size", "Double"}

typeNameMap == [Double |-> "double", Size |-> "size_t", Int |-> "int", String |-> "char*"]

NoInit == [kind |-> "None"]

\* a numeric literal that forgets its value
ZeroLiteral(num, type) == [kind |-> "NumericLiteral", text |-> "0", type |-> type]

createNumericLiteral(num, type) ==
    [kind |-> "NumericLiteral", text |-> ToString(num), type |-> type]

createStringLiteral(value) ==
    [kind |-> "StringLiteral",
     text |-> IF value.t = "null" THEN "NULL" ELSE JSONstringify(value.s)]

\* a Binding is its __meta__ plus the identity of the proxy object
createObjectBinding(uid, name, type, init) ==
    [uid |-> uid, name |-> name, type |-> type, keepAlive |-> FALSE, initializer |-> init]

createStringBinding(uid, name, value) ==
    createObjectBinding(uid, name, "String", createStringLiteral(value))

\* a createNumericBinding that gives every Binding the subtype size
SizeBinding(uid, name, value, type) ==
    createObjectBinding(uid, name, "Size", createNumericLiteral(value, type))

createNumericBinding(uid, name, value, type) ==
    createObjectBinding(uid, name, type, createNumericLiteral(value, type))

createBooleanBinding(uid, name) ==
    createObjectBinding(uid, name, "Boolean", NoInit)

\* an isNumericType that knows int only
IntOnly(t) == t = "Int"

isNumericType(t) == t \in cNumericTypes
isNumeric(obj) == isNumericType(obj.type)
isString(obj) == obj.type = "String"

getObjectTypeNameThrows(obj) ==
    /\ obj.type \notin DOMAIN typeNameMap
    /\ obj.initializer.kind = "None"

getObjectTypeName(obj) ==
    IF obj.type \in DOMAIN typeNameMap THEN typeNameMap[obj.type]
    ELSE CASE obj.initializer.kind = "NumericLiteral" -> typeNameMap[obj.initializer.type]
           [] obj.initializer.kind = "StringLiteral" -> typeNameMap["String"]
           [] obj.initializer.kind = "NewExpression" -> obj.initializer.identifier
           [] OTHER -> "unknown"

toClassName(typeName) ==
    IF EndsWith(typeName, "_t") THEN SubSeq(typeName, 1, Len(typeName) - 1) ELSE typeName

getInitializerName(typeName) == toClassName(typeName) \o "_create"
getDestroyerName(typeName) == toClassName(typeName) \o "_destroy"

resolveBindingIdentify(b) == IF b.name # "" THEN b.name ELSE "unnamed_obj"

compileArgument(arg) ==
    CASE arg.t = "string" -> JSONstringify(arg.s)
      [] arg.t \in {"number", "boolean"} -> TemplateString(arg)
      [] arg.t \in {"undefined", "null"} -> "NULL"
      [] arg.t = "binding" -> resolveBindingIdentify(arg.o)
      [] OTHER -> "unsupported_type_object"

compileCallExpression(identifier, args) ==
    identifier \o "(" \o Join(Map(args, compileArgument), ", ") \o ")"

compileObjectInitializerThrows(obj) == obj.initializer.kind = "None"

compileObjectInitializer(obj) ==
    LET init == obj.initializer IN
    CASE init.kind = "StringLiteral" ->
            (IF init.text = "NULL" THEN "NULL" ELSE "strdup2(" \o init.text \o ")")
      [] init.kind = "NumericLiteral" -> init.text
      [] init.kind = "NewExpression" ->
            compileCallExpression(getInitializerName(init.identifier), init.arguments)
      [] OTHER -> ""

compileVariableDeclaration(decl) ==
    getObjectTypeName(decl.initializer) \o " " \o decl.identifier \o " = "
        \o compileObjectInitializer(decl.initializer)

\* an emitter that destroys nothing
NoDestroyer(obj) == ""

\* a compileObjectDestroyer that does not look at keepAlive
IgnoreKeepAlive(obj) ==
    CASE obj.initializer.kind = "StringLiteral" -> "free(" \o obj.name \o ")"
      [] obj.initializer.kind = "NewExpression" ->
           getDestroyerName(obj.initializer.identifier) \o "(" \o obj.name \o ")"
      [] OTHER -> ""

compileObjectDestroyerThrows(obj) ==
    /\ ~obj.keepAlive
    /\ obj.initializer.kind = "None"

compileObjectDestroyer(obj) ==
    LET init == obj.initializer IN
    IF obj.keepAlive THEN ""
    ELSE CASE init.kind = "StringLiteral" -> "free(" \o obj.name \o ")"
           [] init.kind = "NumericLiteral" -> ""
           [] init.kind = "NewExpression" ->
                getDestroyerName(init.identifier) \o "(" \o obj.name \o ")"
           [] OTHER -> ""

(***************************************************************************)
(* The library's operations on the heap.  A machine state m carries the    *)
(* Context objects (cs), the context stack (stack), the next Binding       *)
(* identity (uid), the WidgetInstance objects (widgets), the value         *)
(* returned by the last call (ret), the argument lists of the fmt calls    *)
(* made (log) and the message of the exception in flight (err, "" when     *)
(* none).  An operation applied to a machine state    *)
(* with an exception in flight does nothing: the exception propagates.     *)
(***************************************************************************)
Throw(m, msg) == [m EXCEPT !.err = msg]

Return(m, val) == [m EXCEPT !.ret = val]

\* a getFunctionContext that answers with the bottom of the stack
BottomContext(stack) == IF Len(stack) < 1 THEN 0 ELSE stack[1]

\* 0 stands for the SyntaxError the function throws
getFunctionContext(stack) ==
    IF Len(stack) < 1 THEN 0 ELSE stack[Len(stack)]

getComponentContext(cs, stack) ==
    IF Len(stack) >= 1 /\ cs[stack[1]].kind = "ComponentContext" THEN stack[1] ELSE 0

MissingFunctionContext == "FunctionContext is missing"
MissingComponentContext == "The createState function must be called in a component function"

pushBody(m, t, lines) == [m EXCEPT !.cs[t].body = @ \o lines]

pushLocal(m, t, identifier, binding) ==
    [m EXCEPT !.cs[t].locals = Append(@, [identifier |-> identifier, initializer |-> binding]),
              !.uid = @ + 1,
              !.ret = binding]

createStringVariable(m, value) ==
    LET t == getFunctionContext(m.stack) IN
    IF m.err # "" THEN m
    ELSE IF t = 0 THEN Throw(m, MissingFunctionContext)
    ELSE LET identifier == "str_" \o ToString(Len(m.cs[t].locals))
         IN pushLocal(m, t, identifier, createStringBinding(m.uid, identifier, value))

\* name = "" stands for a null name
createNumericVariable(m, name, value, type) ==
    LET t == getFunctionContext(m.stack) IN
    IF m.err # "" THEN m
    ELSE IF t = 0 THEN Throw(m, MissingFunctionContext)
    ELSE LET identifier == IF name # "" THEN name
                           ELSE "num_" \o ToString(Len(m.cs[t].locals))
         IN pushLocal(m, t, identifier, createNumericBinding(m.uid, identifier, value, type))

createVariable(m, typeName, args) ==
    LET t == getFunctionContext(m.stack) IN
    IF m.err # "" THEN m
    ELSE IF t = 0 THEN Throw(m, MissingFunctionContext)
    ELSE LET identifier == "obj_" \o ToString(Len(m.cs[t].locals))
         IN pushLocal(m, t, identifier,
                createObjectBinding(m.uid, identifier, "Object",
                    [kind |-> "NewExpression", identifier |-> typeName, arguments |-> args]))

\* Proxy construct trap: new binding(...args)
constructBinding(m, target, args) ==
    IF m.err # "" THEN m
    ELSE IF target.name = "" THEN Throw(m, "Constructor has no name")
    ELSE createVariable(m, target.name, args)

\* Proxy apply trap: binding(...args)
applyBinding(m, target, args) ==
    LET t == getFunctionContext(m.stack) IN
    IF m.err # "" THEN m
    ELSE IF t = 0 THEN Throw(m, MissingFunctionContext)
    ELSE Return(pushBody(m, t, <<compileCallExpression(resolveBindingIdentify(target), args)>>),
                Undefined)

\* the body shared by the Double, Int and Size cases of stringifyBinding
snprintfBuffer(m, t, obj, format) ==
    With(createStringVariable(m, Null), LAMBDA m1 :
        Return(pushBody(m1, t,
                  << m1.ret.name \o " = malloc(sizeof(char) * 32)",
                     "snprintf(" \o m1.ret.name \o ", 31, \"" \o format \o "\", "
                         \o obj.name \o ")",
                     m1.ret.name \o "[31] = 0" >>),
               m1.ret))

stringifyBinding(m, obj) ==
    LET t == getFunctionContext(m.stack) IN
    IF m.err # "" THEN m
    ELSE IF t = 0 THEN Throw(m, MissingFunctionContext)
    ELSE CASE obj.type = "String" -> Return(m, obj)
           [] obj.type = "Object" ->
                IF getObjectTypeNameThrows(obj) THEN Throw(m, "missing initializer")
                ELSE With(createStringVariable(m, Null), LAMBDA m1 :
                        \* no break and no return: control falls into case CType.Double
                        snprintfBuffer(
                            pushBody(m1, t,
                                << m1.ret.name \o " = " \o toClassName(getObjectTypeName(obj))
                                     \o "_to_string(" \o obj.name \o ")" >>),
                            t, obj, "%lf"))
           [] obj.type = "Double" -> snprintfBuffer(m, t, obj, "%lf")
           [] obj.type = "Int" -> snprintfBuffer(m, t, obj, "%d")
           [] obj.type = "Size" -> snprintfBuffer(m, t, obj, "%zu")
           [] OTHER -> Throw(m, "Unable to convert object to a string")

stringifyValue(m, value) ==
    IF m.err # "" THEN m
    ELSE CASE value.t = "string" -> createStringVariable(m, value)
           [] value.t \in {"boolean", "number"} ->
                createStringVariable(m, Str(TemplateString(value)))
           [] value.t = "undefined" -> createStringVariable(m, Str("undefined"))
           [] value.t = "null" -> createStringVariable(m, Null)
           [] value.t = "binding" -> stringifyBinding(m, value.o)
           [] OTHER -> Throw(m, "Unable to convert object to a string")

\* args.map((value) => stringifyValue(value).__meta__.name)
RECURSIVE stringifyAll(_, _, _)
stringifyAll(m, args, acc) ==
    IF m.err # "" THEN m
    ELSE IF Len(args) = 0 THEN Return(m, acc)
    ELSE With(stringifyValue(m, args[1]), LAMBDA m1 :
            IF m1.err # "" THEN m1
            ELSE stringifyAll(m1, Tail(args), Append(acc, m1.ret.name)))

LenSlack == 8

fmt(m, args) ==
    LET c == getComponentContext(m.cs, m.stack)
        t == getFunctionContext(m.stack)
    IN
    IF m.err # "" THEN m
    ELSE IF c = 0 THEN Throw(m, MissingComponentContext)
    ELSE IF t = 0 THEN Throw(m, MissingFunctionContext)
    ELSE
    With(createStringVariable(m, Null), LAMBDA m1 :
    With(createNumericVariable(m1, m1.ret.name \o "_len", LenSlack, "Size"), LAMBDA m2 :
    With(stringifyAll(m2, args, <<>>), LAMBDA m3 :
        IF m3.err # "" THEN m3
        ELSE Return(
               [pushBody(m3, t,
                   [i \in 1..Len(m3.ret) |->
                       m2.ret.name \o " += strlen(" \o m3.ret[i] \o ")"]
                   \o << m1.ret.name \o " = malloc(sizeof(char) * " \o m2.ret.name \o ")" >>
                   \o [i \in 1..Len(m3.ret) |->
                         (IF i = 1 THEN "strcpy" ELSE "strcat")
                            \o "(" \o m1.ret.name \o ", " \o m3.ret[i] \o ")"])
                 EXCEPT !.cs[c].headerFiles =
                            @ \cup {"<stdlib.h>", "<stdio.h>", "<string.h>"},
                        !.log = Append(@, args)],
               m1.ret))))

(***************************************************************************)
(* useState.ts                                                             *)
(***************************************************************************)
setObjectBindingValue(m, obj, newValue) ==
    LET t == getFunctionContext(m.stack) IN
    IF m.err # "" THEN m
    ELSE IF t = 0 THEN Throw(m, MissingFunctionContext)
    ELSE With([m EXCEPT !.cs[t].hasStateOperation = TRUE], LAMBDA m1 :
         IF isString(obj)
         THEN With(stringifyValue(m1, newValue), LAMBDA m2 :
              IF m2.err # "" THEN m2
              ELSE IF compileObjectDestroyerThrows(obj) THEN Throw(m2, "missing initializer")
              ELSE Return(pushBody(m2, t,
                              << compileObjectDestroyer(obj),
                                 obj.name \o " = " \o m2.ret.name >>),
                          Undefined))
         ELSE IF isNumeric(obj)
         THEN CASE newValue.t = "boolean" ->
                     Return(pushBody(m1, t,
                         << obj.name \o " = " \o (IF newValue.b THEN "1" ELSE "0") >>), Undefined)
                [] newValue.t = "number" ->
                     Return(pushBody(m1, t,
                         << obj.name \o " = " \o TemplateString(newValue) >>), Undefined)
                [] newValue.t = "null" ->
                     Return(pushBody(m1, t, << obj.name \o " = 0" >>), Undefined)
                [] newValue.t = "binding" ->
                     Return(pushBody(m1, t,
                         << obj.name \o " = " \o newValue.o.name >>), Undefined)
                [] OTHER -> Throw(m1, "Unable to convert value to int")
         ELSE Throw(m1, "Cannot assign value because the types are incompatible"))

\* names parsed from the component's source text; "" where the parse found none
stateNameAt(ctx) ==
    LET n == Len(ctx.state) IN
    IF n + 1 <= Len(ctx.stateNames) /\ ctx.stateNames[n + 1] # ""
    THEN ctx.stateNames[n + 1]
    ELSE "unnamed_state_" \o ToString(n)

\* valueType = "" stands for an omitted argument
useState(m, initialValue, valueType) ==
    LET c == getComponentContext(m.cs, m.stack) IN
    IF m.err # "" THEN m
    ELSE IF c = 0 THEN Throw(m, MissingComponentContext)
    ELSE
    LET ctx == m.cs[c]
        stateName == stateNameAt(ctx)
        stateCName == "_that->state." \o stateName
        declare(mm, value) ==
            Return([mm EXCEPT !.cs[c].state =
                        Append(@, [identifier |-> stateName, initializer |-> value])],
                   value)
    IN
    CASE initialValue.t = "binding" ->
            LET old == initialValue.o
                value == [old EXCEPT !.name = stateCName]
                \* value.__meta__.name = stateCName renames the one Binding object,
                \* wherever it is referenced from
                rename(decls) ==
                    [i \in 1..Len(decls) |->
                        IF decls[i].initializer.uid = old.uid
                        THEN [decls[i] EXCEPT !.initializer = value]
                        ELSE decls[i]]
                m1 == [m EXCEPT
                         !.cs[c].locals =
                             SelectSeq(@, LAMBDA local : local.initializer.uid # old.uid),
                         !.cs[c].body =
                             SelectSeq(@, LAMBDA line : ~StartsWith(line, old.name)),
                         !.cs[c].state = rename(@)]
            IN declare(m1, value)
      [] initialValue.t = "boolean" ->
            declare([m EXCEPT !.uid = @ + 1], createBooleanBinding(m.uid, stateCName))
      [] initialValue.t = "string" ->
            declare([m EXCEPT !.uid = @ + 1],
                    createStringBinding(m.uid, stateCName, initialValue))
      [] initialValue.t = "number" /\ isNumericType(valueType) ->
            declare([m EXCEPT !.uid = @ + 1],
                    createNumericBinding(m.uid, stateCName, initialValue.n, valueType))
      [] OTHER -> Throw(m, "Unsupported type")

(***************************************************************************)
(* useRef.ts                                                               *)
(***************************************************************************)
refNameAt(ctx) ==
    LET n == Len(ctx.refs) IN
    IF n + 1 <= Len(ctx.refNames) /\ ctx.refNames[n + 1] # ""
    THEN ctx.refNames[n + 1]
    ELSE "ref_" \o ToString(n)

\* returns the index of the new WidgetInstance in m.widgets
useRef(m) ==
    LET c == getComponentContext(m.cs, m.stack) IN
    IF m.err # "" THEN m
    ELSE IF c = 0 THEN Throw(m, MissingComponentContext)
    ELSE LET name == refNameAt(m.cs[c])
             cName == "_that->refs." \o name
         IN Return([m EXCEPT !.cs[c].refs = Append(@, name),
                             !.cs[c].headerFiles = @ \cup {"<stdlib.h>", "<ui_widgets.h>"},
                             !.uid = @ + 1,
                             !.widgets = Append(@, [name |-> name, ident |-> cName,
                                                    type |-> "unknown"])],
                    Len(m.widgets) + 1)

getTextInputValue(m, w) ==
    LET t == getFunctionContext(m.stack) IN
    IF m.err # "" THEN m
    ELSE IF t = 0 THEN Throw(m, MissingFunctionContext)
    ELSE
    With(createStringVariable(m, Null), LAMBDA m1 :
    With(createNumericVariable(m1, m1.ret.name \o "_len", 0, "Size"), LAMBDA m2 :
    With([str |-> m1.ret.name, len |-> m2.ret.name, wcs |-> m1.ret.name \o "_wcs",
          wcsLen |-> m1.ret.name \o "_wcs_len"], LAMBDA id :
        Return(
          [pushBody(m2, t,
             << "size_t " \o id.wcsLen \o " = ui_textinput_get_text_length(" \o w.ident \o ")",
                "wchar_t *" \o id.wcs \o " = malloc(sizeof(wchar_t) * (" \o id.wcsLen
                    \o " + 4))",
                "ui_textinput_get_text_w(" \o w.ident \o ", 0, " \o id.wcsLen \o " + 1, "
                    \o id.wcs \o ")",
                id.len \o " = wcstombs(NULL, " \o id.wcs \o ", 0) + 1",
                id.str \o " = malloc(sizeof(char) * " \o id.len \o ")",
                "wcstombs(" \o id.str \o ", " \o id.wcs \o ", " \o id.len \o ")" >>)
           \* str.__meta__.keepAlive = true marks the Binding object the local holds
           EXCEPT !.cs[t].locals =
                      [i \in 1..Len(@) |->
                          IF @[i].initializer.uid = m1.ret.uid
                          THEN [@[i] EXCEPT !.initializer.keepAlive = TRUE]
                          ELSE @[i]]],
          [m1.ret EXCEPT !.keepAlive = TRUE]))))

\* get value()
getWidgetValue(m, w) ==
    IF m.err # "" THEN m
    ELSE IF w.type = "textinput" THEN getTextInputValue(m, w)
    ELSE Throw(m, "Unable to get value of this type component")

(***************************************************************************)
(* binding.ts: the context stack.                                          *)
(***************************************************************************)
createFunctionContext(name) ==
    [kind |-> "FunctionContext", name |-> name, hasStateOperation |-> FALSE,
     locals |-> <<>>, body |-> <<>>]

\* a setComponentContext that pushes instead of replacing the stack
PushOnReset(stack, ctx) == Append(stack, ctx)

\* a setComponentContext that slides the new Context under the old stack
NewBelowOld(stack, ctx) == << ctx >> \o stack

\* a call that does not pop after the function returned
KeepStack(stack) == stack

pushFunctionComponent(stack, ctx) == Append(stack, ctx)

popFunctionComponent(stack, ctx) == Append(stack, ctx)

setComponentContext(stack, ctx) == <<ctx>>

\* call(func, ctx) before func(): contextList.push(ctx)
callPush(stack, ctx) == Append(stack, ctx)

\* call(func, ctx) after func() returned: contextList.pop()
callPop(stack) == IF Len(stack) = 0 THEN stack ELSE SubSeq(stack, 1, Len(stack) - 1)

(***************************************************************************)
(* binding.ts: the emitter.  A generated function is the sequence of its   *)
(* lines; compileFunction joins them with newlines.                        *)
(***************************************************************************)
formatFuncBody(body) ==
    Map(SelectSeq(body, LAMBDA line : line # ""), LAMBDA line : "        " \o line \o ";")

\* a compileFunction that releases the locals before the body runs
DestroyFirst(locals, signature, body) ==
    <<signature, "{">>
        \o formatFuncBody(Map(locals, compileVariableDeclaration))
        \o formatFuncBody(Map(locals, LAMBDA item : compileObjectDestroyer(item.initializer)))
        \o formatFuncBody(body)
        \o <<"}">>

compileFunction(locals, signature, body) ==
    <<signature, "{">>
        \o formatFuncBody(Map(locals, compileVariableDeclaration))
        \o formatFuncBody(body)
        \o formatFuncBody(Map(locals, LAMBDA item : compileObjectDestroyer(item.initializer)))
        \o <<"}">>

\* an emitter that never calls the update function
NoUpdateCall(className, thatId) == ""

updateCall(className, thatId) == className \o "_react_update(" \o thatId \o ")"

\* name = "" stands for an omitted name; the method of a Context takes the
\* Context's locals, body and hasStateOperation
compileComponentMethod(className, locals, hasStateOperation, name, args, body, thatId) ==
    compileFunction(
        locals,
        "static void " \o className \o "_" \o (IF name # "" THEN name ELSE "unnamed_func")
            \o "(ui_widget_t *w" \o args \o ")",
        << className \o "_react_t *_that = ui_widget_get_data(" \o thatId \o ", "
              \o className \o "_proto)" >>
          \o body
          \o << IF hasStateOperation THEN updateCall(className, thatId) ELSE "" >>)

compileContextMethod(className, fctx, name, args, thatId) ==
    compileComponentMethod(className, fctx.locals, fctx.hasStateOperation,
                           IF name # "" THEN name ELSE fctx.name, args, fctx.body, thatId)

compileComponentStateThrows(ctx) ==
    \E i \in 1..Len(ctx.state) :
        \/ compileObjectInitializerThrows(ctx.state[i].initializer)
        \/ compileObjectDestroyerThrows(ctx.state[i].initializer)

compileComponentState(ctx) ==
    << compileComponentMethod(ctx.name, <<>>, FALSE, "react_init_state", "",
           Map(ctx.state, LAMBDA item :
               item.initializer.name \o " = " \o compileObjectInitializer(item.initializer)),
           "w"),
       compileComponentMethod(ctx.name, <<>>, FALSE, "react_destroy_state", "",
           Map(ctx.state, LAMBDA item : compileObjectDestroyer(item.initializer)),
           "w") >>

handlerFunctionName(ctx, item, cs) == ctx.name \o "_" \o cs[item.context].name

compileComponentEventHandlers(ctx, cs) ==
    [handlers |->
        Map(ctx.eventHandlers, LAMBDA item :
            compileContextMethod(ctx.name, cs[item.context], "",
                                 ", ui_event_t *e, void *arg", "e->data")),
     register |->
        compileComponentMethod(ctx.name, <<>>, FALSE, "react_init_events", "",
            Map(ctx.eventHandlers, LAMBDA item :
                "ui_widget_on(" \o item.target \o ", \"" \o item.eventName \o "\", "
                    \o handlerFunctionName(ctx, item, cs) \o ", w)"),
            "w")]

\* a compileTypes that ignores the state list and the refs list
FixedTypes(ctx) ==
    << "typedef struct " \o ctx.name \o "_react_state {",
       "        char empty;",
       "} " \o ctx.name \o "_react_state_t;",
       "",
       "typedef struct " \o ctx.name \o "_react {",
       "        " \o ctx.name \o "_react_state_t state;",
       "        " \o ctx.name \o "_refs_t refs;",
       "} " \o ctx.name \o "_react_t;" >>

compileTypesThrows(ctx) ==
    \E i \in 1..Len(ctx.state) : getObjectTypeNameThrows(ctx.state[i].initializer)

compileTypes(ctx) ==
    << "typedef struct " \o ctx.name \o "_react_state {" >>
      \o (IF Len(ctx.state) > 0
          THEN Map(ctx.state, LAMBDA item :
                  "        " \o getObjectTypeName(item.initializer) \o " "
                      \o item.identifier \o ";")
          ELSE << "        char empty;" >>)
      \o << "} " \o ctx.name \o "_react_state_t;",
            "",
            "typedef struct " \o ctx.name \o "_react {",
            "        " \o ctx.name \o "_react_state_t state;" >>
      \o (IF Len(ctx.refs) > 0 THEN << "        " \o ctx.name \o "_refs_t refs;" >> ELSE <<>>)
      \o << "} " \o ctx.name \o "_react_t;" >>

compileComponentThrows(ctx) ==
    Len(ctx.state) > 0 /\ compileComponentStateThrows(ctx)

NoEvents == [handlers |-> <<>>, register |-> <<>>]

compileComponent(ctx, cs) ==
    LET hasState == Len(ctx.state) > 0
        hasEvents == Len(ctx.eventHandlers) > 0
    IN [state |-> IF hasState THEN compileComponentState(ctx) ELSE <<>>,
        update |-> compileContextMethod(ctx.name, ctx, "react_update", "", "w"),
        events |-> IF hasEvents THEN compileComponentEventHandlers(ctx, cs) ELSE NoEvents,
        init |->
            << "static void " \o ctx.name \o "_react_init(ui_widget_t *w)",
               "{",
               "        " \o ctx.name \o "_react_t *_that = ui_widget_get_data(w, "
                   \o ctx.name \o "_proto);",
               "        " \o ctx.name \o "_load_template(w"
                   \o (IF Len(ctx.refs) > 0 THEN ", &_that->refs" ELSE "") \o ");" >>
              \o (IF hasState THEN << "        " \o ctx.name \o "_react_init_state(w);" >>
                  ELSE <<>>)
              \o (IF hasEvents THEN << "        " \o ctx.name \o "_react_init_events(w);" >>
                  ELSE <<>>)
              \o (IF hasState THEN << "        " \o ctx.name \o "_react_update(w);" >>
                  ELSE <<>>)
              \o << "}" >>,
        destroy |->
            << "static void " \o ctx.name \o "_react_destroy(ui_widget_t *w)", "{" >>
              \o (IF hasState THEN << "        " \o ctx.name \o "_react_destroy_state(w);" >>
                  ELSE <<>>)
              \o << "}" >>]

(***************************************************************************)
(* compile.tsx: the tree walk.  A Node keeps the one attribute the walk    *)
(* itself reads and writes, attributes.ref ("" when absent).               *)
(***************************************************************************)
createNode(name) ==
    [type |-> "element", name |-> name, text |-> "", ref |-> "", children |-> <<>>]

allocRef(m, c, node, prefix) ==
    LET ref == IF node.ref # "" THEN node.ref
               ELSE prefix \o ToString(Len(m.cs[c].refs))
    IN Return([m EXCEPT !.cs[c].refs = Append(@, ref)],
              [node |-> [node EXCEPT !.ref = ref], ref |-> ref])

UpperCase == "ABCDEFGHIJKLMNOPQRSTUVWXYZ"
LowerCase == "abcdefghijklmnopqrstuvwxyz"

RECURSIVE toDashCase(_)
toDashCase(str) ==
    IF Len(str) = 0 THEN ""
    ELSE LET ch == SubSeq(str, 1, 1)
             up == {i \in 1..Len(UpperCase) : SubSeq(UpperCase, i, i) = ch}
         IN (IF up = {} THEN ch
             ELSE "-" \o (LET i == CHOOSE i \in up : TRUE IN SubSeq(LowerCase, i, i)))
            \o toDashCase(SubSeq(str, 2, Len(str)))

styleIdentify(value) ==
    CASE value.t = "binding" -> value.o.name
      [] value.t \in {"number", "string"} -> "\"" \o TemplateString(value) \o "\""
      [] OTHER -> "unknown_" \o value.t

\* style: the object's entries in key order, each [key, value]
transformNodeStyle(m, node, style) ==
    LET c == getComponentContext(m.cs, m.stack) IN
    IF m.err # "" THEN m
    ELSE IF c = 0 THEN Throw(m, MissingComponentContext)
    ELSE With(allocRef(m, c, node, "ref_"), LAMBDA m1 :
            Return(pushBody(m1, c,
                      [i \in 1..Len(style) |->
                          "ui_widget_set_style_string(_that->refs." \o m1.ret.ref \o ", \""
                             \o toDashCase(style[i].key) \o "\", "
                             \o styleIdentify(style[i].value) \o ")"]),
                   m1.ret.node))

\* a forEach callback that collects nothing
SkipChild(child) == << >>

\* React.Children.forEach callback: what the child adds to `children`
collectChild(child) ==
    CASE child.k = "string" -> << [k |-> "string", s |-> child.s] >>
      [] child.k = "number" -> << [k |-> "string", s |-> ToString(child.n)] >>
      [] child.k = "marker" -> << [k |-> "binding", o |-> child.o] >>
      [] child.k = "element" -> << [k |-> "element"] >>
      [] OTHER -> << >>

RECURSIVE collectChildren(_)
collectChildren(rawChildren) ==
    IF Len(rawChildren) = 0 THEN << >>
    ELSE collectChild(rawChildren[1]) \o collectChildren(Tail(rawChildren))

isPureText(rawChildren) ==
    \A i \in 1..Len(rawChildren) : rawChildren[i].k \notin {"marker", "element"}

\* a children pass that never formats the list as a whole
NeverFormat(rawChildren) == FALSE

needFormat(rawChildren) ==
    \A i \in 1..Len(rawChildren) : rawChildren[i].k # "element"

childValue(child) == IF child.k = "binding" THEN Bind(child.o) ELSE Str(child.s)

setTextStatement(ref, str) ==
    "ui_widget_set_text(_that->refs." \o ref \o ", " \o str.name \o ")"

\* transformNodeChildren up to the point where the children are lowered one
\* by one; returns [node, todo], todo being the children still to lower
transformNodeChildren(m, node, rawChildren) ==
    LET children == collectChildren(rawChildren)
        c == getComponentContext(m.cs, m.stack)
    IN
    IF m.err # "" THEN m
    ELSE IF isPureText(rawChildren)
    THEN Return(m, [node |-> [node EXCEPT !.text = Join(Map(children, LAMBDA ch : ch.s), "")],
                    todo |-> << >>, lower |-> FALSE])
    ELSE IF c = 0 THEN Throw(m, MissingComponentContext)
    ELSE IF needFormat(rawChildren)
    THEN With(fmt(m, Map(children, childValue)), LAMBDA m1 :
            IF m1.err # "" THEN m1
            ELSE With(allocRef(m1, c, node, "text_ref"), LAMBDA m2 :
                    Return(pushBody(m2, c, << setTextStatement(m2.ret.ref, m1.ret) >>),
                           [node |-> m2.ret.node, todo |-> << >>, lower |-> FALSE])))
    ELSE Return(m, [node |-> node, todo |-> children, lower |-> TRUE])

\* the body of children.map for a string child
lowerString(child) == [createNode("text") EXCEPT !.text = child.s]

\* the body of children.map for a Binding child; returns the child Node
lowerBinding(m, child) ==
    LET c == getComponentContext(m.cs, m.stack) IN
    IF m.err # "" THEN m
    ELSE With(fmt(m, << Bind(child.o) >>), LAMBDA m1 :
            IF m1.err # "" THEN m1
            ELSE With(allocRef(m1, c, createNode("text"), "ref_"), LAMBDA m2 :
                    Return(pushBody(m2, c, << setTextStatement(m2.ret.ref, m1.ret) >>),
                           m2.ret.node)))

tagName(type) == IF type \in {"div", "w", "widget"} THEN "widget" ELSE type

\* transformReactNode from its entry to the children: the Node and its
\* attributes; el.ref is [k |-> "none"], [k |-> "name", s] or [k |-> "object", w]
enterNode(m, el) ==
    LET node == [createNode("") EXCEPT !.name = tagName(el.type)] IN
    CASE el.ref.k = "name" -> Return(m, [node EXCEPT !.ref = el.ref.s])
      [] el.ref.k = "object" ->
            Return([m EXCEPT !.widgets[el.ref.w].type = el.type],
                   [node EXCEPT !.ref = m.widgets[el.ref.w].name])
      [] OTHER -> Return(m, node)

\* el.props.children is falsy
noChildren(rawChildren) ==
    \/ Len(rawChildren) = 0
    \/ /\ Len(rawChildren) = 1
       /\ \/ rawChildren[1].k = "other"
          \/ rawChildren[1].k = "string" /\ rawChildren[1].s = ""
          \/ rawChildren[1].k = "number" /\ rawChildren[1].n = 0

\* a handler name without the position of the declaration
UnnumberedName(node, eventName, ctx) == Join(<< "handle", node.name, eventName >>, "_")

handlerName(node, eventName, ctx) ==
    Join(<< "handle", node.name, eventName, ToString(Len(ctx.eventHandlers)) >>, "_")

findHandler(ctx, handler) ==
    {i \in 1..Len(ctx.eventHandlers) : ctx.eventHandlers[i].handler = handler}

\* transformEventHandler up to call(handler, decl.context); returns the Node,
\* and the identity of the new handler Context (0 when the handler was seen)
transformEventHandler(m, node, eventName, handler, newId) ==
    LET c == getComponentContext(m.cs, m.stack) IN
    IF m.err # "" THEN m
    ELSE IF c = 0 THEN Throw(m, MissingComponentContext)
    ELSE With(allocRef(m, c, node, "ref_"), LAMBDA m1 :
            IF findHandler(m1.cs[c], handler) # {}
            THEN Return(m1, [node |-> m1.ret.node, context |-> 0])
            ELSE Return([m1 EXCEPT
                           !.cs = (newId :> createFunctionContext(
                                       handlerName(node, eventName, m1.cs[c]))) @@ @,
                           !.cs[c].eventHandlers =
                               Append(@, [target |-> m1.ret.ref, eventName |-> eventName,
                                          handler |-> handler, context |-> newId])],
                        [node |-> m1.ret.node, context |-> newId]))

(***************************************************************************)
(* The compile process.                                                    *)
(***************************************************************************)
NoCall == [status |-> "none"]
NoResult == [status |-> "none"]
NoOutside == [status |-> "none", calls |-> 0]

HandlerFns == 1..NumHandlerFns

\* the component function's name and the names parseHookValueNames finds in
\* its source text
ComponentName == "App"
StateNames == << "s0" >>
RefNames == << "r0" >>

\* an imported native type: a Binding with a name, no initializer
ExtBinding == createObjectBinding(0, "Foo", "Object", NoInit)

NewId(cs) == CHOOSE i \in 1..(Cardinality(DOMAIN cs) + 1) :
                 /\ i \notin DOMAIN cs
                 /\ \A j \in 1..(i - 1) : j \in DOMAIN cs

\* the Context objects still referenced once the stack is `stack`
Live(cs, stack) ==
    LET roots == {stack[i] : i \in 1..Len(stack)} IN
    roots \cup UNION {{cs[r].eventHandlers[j].context : j \in 1..Len(cs[r].eventHandlers)} :
                         r \in {x \in roots : cs[x].kind = "ComponentContext"}}

Machine ==
    [cs |-> ctxs, stack |-> contextList, uid |-> nextUid, widgets |-> widgets,
     ret |-> Undefined, err |-> "", log |-> << >>]

Top == getFunctionContext(contextList)

\* the heap after a library call
Heap(m) ==
    /\ ctxs' = m.cs
    /\ nextUid' = m.uid
    /\ widgets' = m.widgets
    /\ fmtLog' = m.log

\* an exception leaves compile: nothing pops the stack on the way out
Raise(m) ==
    /\ Heap(m)
    /\ pc' = "failed"
    /\ frames' = << >>
    /\ hcall' = IF hcall.status = "running" THEN [hcall EXCEPT !.status = "threw"] ELSE hcall
    /\ result' = [status |-> "error", message |-> m.err]
    /\ UNCHANGED <<contextList, comp, elems, invoked, seenProps, ops, compiles, replaced,
                   pairBase, pairCtx, pairPc, program, previous, outside>>

newComponentContext ==
    [kind |-> "ComponentContext", state |-> << >>, refs |-> << >>, eventHandlers |-> << >>,
     stateNames |-> StateNames, refNames |-> RefNames, headerFiles |-> {}]
        @@ createFunctionContext(ComponentName)

CompileBegin ==
    /\ pc \in {"idle", "done", "failed"}
    /\ compiles < MaxCompiles
    /\ LET \* the Contexts the new stack still holds besides the new one; the
           \* identity of an unreachable Context is free again
           kept == SelectSeq(setComponentContext(contextList, 0), LAMBDA i : i # 0)
           old == [i \in Live(ctxs, kept) |-> ctxs[i]]
           id == NewId(old)
           cs == (id :> newComponentContext) @@ old
       IN /\ contextList' = setComponentContext(contextList, id)
          /\ ctxs' = cs
          /\ comp' = id
    /\ pc' = "render"
    /\ nextUid' = 1
    /\ widgets' = << >>
    /\ frames' = << >>
    /\ elems' = 0
    /\ hcall' = NoCall
    /\ invoked' = [h \in HandlerFns |-> 0]
    /\ seenProps' = << >>
    /\ fmtLog' = << >>
    /\ ops' = 0
    /\ compiles' = compiles + 1
    /\ replaced' = contextList
    /\ result' = NoResult
    \* history of the results, kept while one fixed component function is compiled
    \* again and again
    /\ previous' = IF program.fixed THEN result ELSE NoResult
    /\ outside' = NoOutside
    /\ UNCHANGED <<pairBase, pairCtx, pairPc, program>>

(***************************************************************************)
(* What the traced code does: the component function (pc = "render") and   *)
(* an event handler (pc = "handler") are sequences of library calls.       *)
(***************************************************************************)
Tracing ==
    \/ pc = "render" /\ ops < MaxRenderOps
    \/ pc = "handler" /\ ops < MaxHandlerOps

\* the Bindings the traced code holds: the state values, the values its own
\* calls returned, the imported type
StateBindings ==
    IF comp \in DOMAIN ctxs
    THEN {ctxs[comp].state[i].initializer : i \in 1..Len(ctxs[comp].state)}
    ELSE {}

\* locals[j] holds a value a library call returned to the traced code: the
\* object made by `new`, the string made by fmt or by reading a text input
\* (the one declared together with its `_len`)
ReturnedLocal(locals, j) ==
    \/ locals[j].initializer.initializer.kind = "NewExpression"
    \/ \E k \in 1..Len(locals) : locals[k].identifier = locals[j].identifier \o "_len"

LocalBindings ==
    IF Top \in DOMAIN ctxs
    THEN {ctxs[Top].locals[i].initializer :
             i \in {j \in 1..Len(ctxs[Top].locals) : ReturnedLocal(ctxs[Top].locals, j)}}
    ELSE {}

Traced(m) ==
    IF m.err # "" THEN Raise(m)
    ELSE /\ Heap(m)
         /\ ops' = ops + 1
         /\ UNCHANGED <<pc, contextList, comp, frames, elems, hcall, invoked, seenProps,
                        compiles, replaced,
                        result, pairBase, pairCtx, pairPc, program, previous, outside>>

OpUseState(initialValue, valueType) ==
    /\ pc = "render" /\ ops < MaxRenderOps
    /\ Traced(useState(Machine, initialValue, valueType))

OpUseRef ==
    /\ pc = "render" /\ ops < MaxRenderOps
    /\ Traced(useRef(Machine))

OpNew ==
    /\ Tracing
    /\ Traced(constructBinding(Machine, ExtBinding, << >>))

\* new Foo(...args)
OpNewWith(args) ==
    /\ Tracing
    /\ Traced(constructBinding(Machine, ExtBinding, args))

OpCall(args) ==
    /\ Tracing
    /\ Traced(applyBinding(Machine, ExtBinding, args))

OpFmt(args) ==
    /\ Tracing
    /\ Traced(fmt(Machine, args))

OpSet(i, newValue) ==
    /\ Tracing
    /\ comp \in DOMAIN ctxs
    /\ i \in 1..Len(ctxs[comp].state)
    /\ Traced(setObjectBindingValue(Machine, ctxs[comp].state[i].initializer, newValue))

OpValue(w) ==
    /\ Tracing
    /\ w \in 1..Len(widgets)
    /\ Traced(getWidgetValue(Machine, widgets[w]))

\* the handler's own code throws
OpThrow ==
    /\ pc = "handler"
    /\ Raise(Throw(Machine, "error thrown by the handler"))

(***************************************************************************)
(* The tree walk.  A frame is one activation of transformReactNode: the    *)
(* element el it was given, the Node it builds, where it stands (stage),   *)
(* the children still to lower (todo), the child Nodes made so far (kids)  *)
(* and the index of the next event prop (hidx).                            *)
(***************************************************************************)
TopFrame == frames[Len(frames)]

SetTop(f) == [frames EXCEPT ![Len(frames)] = f]

Walking(stage) ==
    /\ pc = "walk"
    /\ Len(frames) > 0
    /\ TopFrame.stage = stage

newFrame(el, node) ==
    [el |-> el, node |-> node, stage |-> "children", todo |-> << >>, kids |-> << >>,
     hidx |-> 1]

\* the component function returns its root element: compile passes it to
\* transformReactNode
RenderReturn(el) ==
    /\ pc = "render"
    /\ With(enterNode(Machine, el), LAMBDA m :
          /\ Heap(m)
          /\ frames' = << newFrame(el, m.ret) >>)
    /\ pc' = "walk"
    /\ elems' = 1
    /\ ops' = 0
    /\ UNCHANGED <<contextList, comp, hcall, invoked, seenProps, compiles, replaced, result,
                   pairBase, pairCtx, pairPc, program, previous, outside>>

\* children.map reaches an element: transformReactNode(child)
WalkEnter(el) ==
    /\ Walking("lower")
    /\ Len(TopFrame.todo) > 0
    /\ TopFrame.todo[1].k = "element"
    /\ elems < MaxElems
    /\ With(enterNode(Machine, el), LAMBDA m :
          /\ Heap(m)
          /\ frames' = Append(frames, newFrame(el, m.ret)))
    /\ elems' = elems + 1
    /\ UNCHANGED <<pc, contextList, comp, hcall, invoked, seenProps, ops, compiles,
                   replaced, result,
                   pairBase, pairCtx, pairPc, program, previous, outside>>

Walked(m, f) ==
    IF m.err # "" THEN Raise(m)
    ELSE /\ Heap(m)
         /\ frames' = SetTop(f)
         /\ UNCHANGED <<pc, contextList, comp, elems, hcall, invoked, seenProps, ops,
                        compiles, replaced,
                        result, pairBase, pairCtx, pairPc, program, previous, outside>>

\* if (el.props.children) transformNodeChildren(node, el.props.children)
WalkChildren ==
    /\ Walking("children")
    /\ IF noChildren(TopFrame.el.children)
       THEN Walked(Machine, [TopFrame EXCEPT !.stage = "style"])
       ELSE With(transformNodeChildren(Machine, TopFrame.node, TopFrame.el.children),
                 LAMBDA m :
                    Walked(m, IF m.err # "" THEN TopFrame
                              ELSE [TopFrame EXCEPT
                                      !.node = m.ret.node,
                                      !.todo = m.ret.todo,
                                      !.stage = IF m.ret.lower THEN "lower" ELSE "style"]))

\* children.map over a string or a Binding
WalkLower ==
    /\ Walking("lower")
    /\ Len(TopFrame.todo) > 0
    /\ TopFrame.todo[1].k # "element"
    /\ With(IF TopFrame.todo[1].k = "string"
            THEN Return(Machine, lowerString(TopFrame.todo[1]))
            ELSE lowerBinding(Machine, TopFrame.todo[1]),
            LAMBDA m :
               Walked(m, IF m.err # "" THEN TopFrame
                         ELSE [TopFrame EXCEPT !.kids = Append(@, m.ret), !.todo = Tail(@)]))

\* node.children = children.map(...)
WalkLowered ==
    /\ Walking("lower")
    /\ Len(TopFrame.todo) = 0
    /\ Walked(Machine, [TopFrame EXCEPT !.node.children = TopFrame.kids, !.stage = "style"])

\* if (value): a prop that is absent, "", 0 or false does not pass the test
Truthy(value) ==
    CASE value.k = "none" -> FALSE
      [] value.k = "string" -> value.s # ""
      [] value.k = "number" -> value.n # 0
      [] value.k = "boolean" -> value.b
      [] OTHER -> TRUE

\* if (el.props.style) { ... transformNodeStyle(node, el.props.style) }
WalkStyle ==
    /\ Walking("style")
    /\ CASE ~Truthy(TopFrame.el.style) ->
                Walked(Machine, [TopFrame EXCEPT !.stage = "events"])
         [] TopFrame.el.style.k = "object" ->
                With(transformNodeStyle(Machine, TopFrame.node, TopFrame.el.style.props),
                     LAMBDA m :
                        Walked(m, IF m.err # "" THEN TopFrame
                                  ELSE [TopFrame EXCEPT !.node = m.ret, !.stage = "events"]))
         [] OTHER ->
                Raise(Throw(Machine, "The style attribute value must be an object"))

\* handlerNames.forEach: transformEventHandler(node, eventName, handler),
\* which for a new handler calls call(handler, decl.context)
WalkEvent ==
    /\ Walking("events")
    /\ TopFrame.hidx <= Len(TopFrame.el.handlers)
    /\ With(transformEventHandler(Machine, TopFrame.node,
                                  TopFrame.el.handlers[TopFrame.hidx].event,
                                  TopFrame.el.handlers[TopFrame.hidx].fn, NewId(ctxs)),
            LAMBDA m :
          LET f == TopFrame
              h == f.el.handlers[f.hidx]
          IN
          IF m.err # "" THEN Raise(m)
          ELSE /\ Heap(m)
               /\ frames' = SetTop([f EXCEPT !.node = m.ret.node, !.hidx = @ + 1])
               /\ seenProps' = Append(seenProps, [target |-> m.ret.node.ref,
                                                  eventName |-> h.event, handler |-> h.fn])
               /\ IF m.ret.context = 0
                  THEN UNCHANGED <<pc, contextList, hcall, invoked, ops>>
                  ELSE /\ contextList' = callPush(contextList, m.ret.context)
                       /\ pc' = "handler"
                       /\ hcall' = [status |-> "running", fn |-> h.fn,
                                    ctx |-> m.ret.context, base |-> contextList]
                       /\ invoked' = [invoked EXCEPT ![h.fn] = @ + 1]
                       /\ ops' = 0
               /\ UNCHANGED <<comp, elems, compiles, replaced, result, pairBase, pairCtx,
                              pairPc, program, previous, outside>>)

\* the handler returns: call pops the stack, transformEventHandler returns
HandlerReturn ==
    /\ pc = "handler"
    /\ contextList' = callPop(contextList)
    /\ pc' = "walk"
    /\ hcall' = [hcall EXCEPT !.status = "returned"]
    /\ fmtLog' = << >>
    /\ UNCHANGED <<ctxs, comp, nextUid, widgets, frames, elems, invoked, seenProps, ops,
                   compiles, replaced,
                   result, pairBase, pairCtx, pairPc, program, previous, outside>>

\* transformReactNode(child) returns the child's Node to children.map
WalkReturn ==
    /\ Walking("events")
    /\ TopFrame.hidx > Len(TopFrame.el.handlers)
    /\ Len(frames) > 1
    /\ LET parent == frames[Len(frames) - 1]
           rest == SubSeq(frames, 1, Len(frames) - 2)
       IN frames' = Append(rest, [parent EXCEPT !.kids = Append(@, TopFrame.node),
                                                !.todo = Tail(@)])
    /\ fmtLog' = << >>
    /\ UNCHANGED <<pc, contextList, ctxs, comp, nextUid, widgets, elems, hcall, invoked, seenProps,
                   ops, compiles, replaced, result, pairBase, pairCtx, pairPc, program,
                   previous, outside>>

\* the root's transformReactNode returns; compile builds its result
CompileReturn ==
    /\ Walking("events")
    /\ TopFrame.hidx > Len(TopFrame.el.handlers)
    /\ Len(frames) = 1
    /\ LET ctx == ctxs[comp] IN
       IF compileTypesThrows(ctx) \/ compileComponentThrows(ctx)
       THEN Raise(Throw(Machine, "missing initializer"))
       ELSE /\ result' = [status |-> "ok",
                          name |-> ctx.name,
                          node |-> TopFrame.node,
                          refs |-> ctx.refs,
                          headerFiles |-> ctx.headerFiles,
                          typesCode |-> compileTypes(ctx),
                          reactCode |-> compileComponent(ctx, ctxs)]
            /\ pc' = "done"
            /\ frames' = << >>
            /\ fmtLog' = << >>
            /\ UNCHANGED <<contextList, ctxs, comp, nextUid, widgets, elems, hcall,
                           invoked, seenProps, ops, compiles, replaced, pairBase, pairCtx,
                           pairPc, program, previous, outside>>

(***************************************************************************)
(* The hooks are exported functions: code that is not run by compile can   *)
(* call them, before the first compile or between two compiles.  An error  *)
(* they throw goes to that caller.                                         *)
(***************************************************************************)
OutsideCall(m) ==
    /\ pc \in {"idle", "done", "failed"}
    /\ outside.calls < MaxOutsideCalls
    /\ Heap(m)
    /\ outside' = IF m.err # ""
                  THEN [status |-> "threw", calls |-> outside.calls + 1]
                  ELSE [status |-> "returned", calls |-> outside.calls + 1]
    /\ UNCHANGED <<pc, contextList, comp, frames, elems, hcall, invoked, seenProps, ops,
                   compiles, replaced, result, pairBase, pairCtx, pairPc, program, previous>>

OutsideUseState(initialValue, valueType) ==
    OutsideCall(useState(Machine, initialValue, valueType))

OutsideUseRef == OutsideCall(useRef(Machine))

(***************************************************************************)
(* binding.ts exports pushFunctionComponent and popFunctionComponent;      *)
(* nothing in the package calls them.  A caller brackets a traced function *)
(* body with the pair.                                                     *)
(***************************************************************************)
PushStep(c) ==
    /\ pairPc \in {"none", "popped"}
    /\ Len(contextList) + 2 <= MaxStack
    /\ pairBase' = contextList
    /\ pairCtx' = c
    /\ contextList' = pushFunctionComponent(contextList, c)
    /\ pairPc' = "pushed"
    /\ UNCHANGED <<pc, ctxs, comp, nextUid, widgets, frames, elems, hcall, invoked, seenProps,
                   fmtLog, ops, compiles, replaced, result, program, previous, outside>>

PopStep ==
    /\ pairPc = "pushed"
    /\ contextList' = popFunctionComponent(contextList, pairCtx)
    /\ pairPc' = "popped"
    /\ UNCHANGED <<pc, ctxs, comp, nextUid, widgets, frames, elems, hcall, invoked, seenProps,
                   fmtLog, ops, compiles, replaced, result, pairBase, pairCtx, program,
                   previous, outside>>

(***************************************************************************)
(* The inputs: what the component's code passes to the library.            *)
(***************************************************************************)
SeqsUpTo(S, n) == UNION {[1..k -> S] : k \in 0..n}

Literals == {Str("a"), Num(7)}

NoRef == [k |-> "none"]
NoStyle == [k |-> "none"]

WidgetRefs == {[k |-> "object", w |-> w] : w \in 1..Len(widgets)}

ClickProps == {[event |-> "click", fn |-> h] : h \in HandlerFns}

StringChild == [k |-> "string", s |-> "a"]
NumberChild == [k |-> "number", n |-> 7]
ElementChild == [k |-> "element"]
OtherChild == [k |-> "other"]

\* elements that carry event handlers
EventElements ==
    [type : {"button"},
     ref : {NoRef},
     children : {<< >>, << StringChild, ElementChild >>},
     style : {NoStyle},
     handlers : SeqsUpTo(ClickProps, 1)]

\* one element with one handler
HandlerValues ==
    Literals \cup {Bool(TRUE)} \cup {Bind(b) : b \in StateBindings \cup LocalBindings}

HandlerInitialValues ==
    {<<Str("a"), "">>, <<Num(7), "Int">>} \cup {<<Bind(b), "">> : b \in LocalBindings}

HandlerElements ==
    [type : {"textinput"},
     ref : {NoRef} \cup WidgetRefs,
     children : {<< >>},
     style : {NoStyle},
     handlers : {<< [event |-> "click", fn |-> 1] >>}]

\* elements that carry text
TextChildren ==
    {StringChild, NumberChild, OtherChild, ElementChild}
        \cup {[k |-> "marker", o |-> b] : b \in StateBindings}

TextElements ==
    [type : {"text"},
     ref : {NoRef},
     children : SeqsUpTo(TextChildren, MaxChildren),
     style : {NoStyle},
     handlers : {<< >>}]

\* a component function that formats strings and constructs objects
FmtValues == Literals \cup {Bind(b) : b \in StateBindings \cup LocalBindings \cup {ExtBinding}}

FmtInitialValues ==
    {<<Str("a"), "">>, <<Num(7), "Int">>, <<Num(7), "">>, <<Bool(TRUE), "">>}
        \cup {<<Bind(b), "">> : b \in LocalBindings}

FmtArgs == SeqsUpTo(FmtValues, MaxFmtArgs) \ {<< >>}

FmtElements ==
    [type : {"text"},
     ref : {NoRef},
     children : {<< >>},
     style : {NoStyle, [k |-> "string", s |-> "red"],
              [k |-> "object", props |-> << [key |-> "fontSize", value |-> Num(7)] >>]},
     handlers : {<< >>}]

\* elements that carry a style prop of every type
StyleValues ==
    {NoStyle,
     [k |-> "string", s |-> ""], [k |-> "string", s |-> "red"],
     [k |-> "number", n |-> 0], [k |-> "number", n |-> 7],
     [k |-> "boolean", b |-> FALSE], [k |-> "boolean", b |-> TRUE],
     [k |-> "object", props |-> << >>],
     [k |-> "object", props |-> << [key |-> "fontSize", value |-> Num(7)],
                                   [key |-> "color", value |-> Str("red")] >>]}

StyleElements ==
    [type : {"text"},
     ref : {NoRef},
     children : {<< >>, << ElementChild >>},
     style : StyleValues,
     handlers : {<< >>}]

\* a component function that declares numeric state of every subtype and
\* formats it
NumericInitialValues == {<<Num(7), type>> : type \in cNumericTypes}

\* the value types that are not numeric; "" is an omitted argument
OtherTypes == {"", "Unknown", "String", "Boolean", "Object"}

NumericElements ==
    [type : {"text"},
     ref : {NoRef},
     children : {<< >>},
     style : {NoStyle},
     handlers : {<< >>}]

\* a component function whose code is fixed: the library calls its body makes,
\* the element it returns, the element nested in it and the calls its click
\* handler makes.  compile(componentFunc, props, options) with the same
\* arguments runs the same code.
NoProgram == [fixed |-> FALSE]

RenderSteps ==
    {[op |-> "useState", value |-> Num(7), type |-> "Int"],
     [op |-> "useState", value |-> Str("a"), type |-> ""],
     [op |-> "useRef"], [op |-> "new"], [op |-> "fmt"]}

HandlerSteps ==
    {[op |-> "set", value |-> Num(7)], [op |-> "set", value |-> Str("a")],
     [op |-> "new"], [op |-> "throw"]}

DeclaresState(steps) == \E i \in 1..Len(steps) : steps[i].op = "useState"

Programs ==
    {p \in [fixed : {TRUE},
            render : SeqsUpTo(RenderSteps, MaxRenderOps),
            root : EventElements,
            handler : SeqsUpTo(HandlerSteps, MaxHandlerOps)] :
        \A i \in 1..Len(p.handler) : p.handler[i].op = "set" => DeclaresState(p.render)}

\* the element nested in the root: the same button without children
ChildOf(p) == [p.root EXCEPT !.children = << >>]

\* the next library call of the traced code
Perform(step) ==
    CASE step.op = "useState" -> OpUseState(step.value, step.type)
      [] step.op = "useRef" -> OpUseRef
      [] step.op = "new" -> OpNew
      [] step.op = "fmt" -> OpFmt(<< Str("a") >> \o [i \in 1..Len(ctxs[comp].state) |->
                                                     Bind(ctxs[comp].state[i].initializer)])
      [] step.op = "set" -> OpSet(1, step.value)
      [] step.op = "throw" -> OpThrow

(***************************************************************************)
(* Specifications.                                                         *)
(***************************************************************************)
Init ==
    /\ pc = "idle"
    /\ contextList = << >>
    /\ ctxs = << >>
    /\ comp = 0
    /\ nextUid = 1
    /\ widgets = << >>
    /\ frames = << >>
    /\ elems = 0
    /\ hcall = NoCall
    /\ invoked = [h \in HandlerFns |-> 0]
    /\ seenProps = << >>
    /\ fmtLog = << >>
    /\ ops = 0
    /\ compiles = 0
    /\ replaced = << >>
    /\ result = NoResult
    /\ pairBase = << >>
    /\ pairCtx = 0
    /\ pairPc = "none"
    /\ program = NoProgram
    /\ previous = NoResult
    /\ outside = NoOutside

\* compile over components whose function declares numeric state and whose
\* elements carry event handlers
Next ==
    \/ CompileBegin
    \/ OpUseState(Num(7), "Int")
    \/ pc = "handler" /\ OpNew
    \/ pc = "handler" /\ \E i \in 1..MaxRenderOps : OpSet(i, Num(7))
    \/ pc = "handler" /\ OpCall(<< >>)
    \/ pc = "handler" /\ OpFmt(<< Str("a") >>)
    \/ OpThrow
    \/ \E el \in EventElements : RenderReturn(el)
    \/ \E el \in EventElements : WalkEnter(el)
    \/ WalkChildren
    \/ WalkLower
    \/ WalkLowered
    \/ WalkStyle
    \/ WalkEvent
    \/ HandlerReturn
    \/ WalkReturn
    \/ CompileReturn

Spec == Init /\ [][Next]_vars

\* compile over components with one element and one handler
NextHandler ==
    \/ CompileBegin
    \/ \E iv \in HandlerInitialValues : OpUseState(iv[1], iv[2])
    \/ OpUseRef
    \/ OpNew
    \/ pc = "handler" /\ OpNewWith(<< Num(7), Str("a") >>)
    \/ pc = "handler" /\ OpCall(<< >>)
    \/ pc = "handler" /\ \E v \in HandlerValues : OpFmt(<< v >>)
    \/ pc = "handler" /\ \E i \in 1..MaxRenderOps, v \in HandlerValues : OpSet(i, v)
    \/ pc = "handler" /\ \E w \in 1..MaxRenderOps : OpValue(w)
    \/ OpThrow
    \/ \E el \in HandlerElements : RenderReturn(el)
    \/ WalkChildren
    \/ WalkStyle
    \/ WalkEvent
    \/ HandlerReturn
    \/ CompileReturn

SpecHandler == Init /\ [][NextHandler]_vars

\* compile over components whose elements carry text
NextText ==
    \/ CompileBegin
    \/ \E iv \in {<<Str("a"), "">>, <<Num(7), "Int">>} : OpUseState(iv[1], iv[2])
    \/ \E el \in TextElements : RenderReturn(el)
    \/ \E el \in TextElements : WalkEnter(el)
    \/ WalkChildren
    \/ WalkLower
    \/ WalkLowered
    \/ WalkStyle
    \/ WalkReturn
    \/ CompileReturn

SpecText == Init /\ [][NextText]_vars

\* compile over components whose function formats strings and constructs
\* objects
NextFmt ==
    \/ CompileBegin
    \/ \E iv \in FmtInitialValues : OpUseState(iv[1], iv[2])
    \/ OpNew
    \/ \E args \in SeqsUpTo(Literals, 1) : OpCall(args)
    \/ \E args \in FmtArgs : OpFmt(args)
    \/ \E el \in FmtElements : RenderReturn(el)
    \/ WalkChildren
    \/ WalkStyle
    \/ CompileReturn

SpecFmt == Init /\ [][NextFmt]_vars

\* compile called again and again on one component function with the same
\* props and options
InitReplay ==
    /\ pc = "idle"
    /\ contextList = << >>
    /\ ctxs = << >>
    /\ comp = 0
    /\ nextUid = 1
    /\ widgets = << >>
    /\ frames = << >>
    /\ elems = 0
    /\ hcall = NoCall
    /\ invoked = [h \in HandlerFns |-> 0]
    /\ seenProps = << >>
    /\ fmtLog = << >>
    /\ ops = 0
    /\ compiles = 0
    /\ replaced = << >>
    /\ result = NoResult
    /\ pairBase = << >>
    /\ pairCtx = 0
    /\ pairPc = "none"
    /\ program \in Programs
    /\ previous = NoResult
    /\ outside = NoOutside

NextReplay ==
    \/ CompileBegin
    \/ pc = "render" /\ ops < Len(program.render) /\ Perform(program.render[ops + 1])
    \/ pc = "render" /\ ops = Len(program.render) /\ RenderReturn(program.root)
    \/ WalkEnter(ChildOf(program))
    \/ WalkChildren
    \/ WalkLower
    \/ WalkLowered
    \/ WalkStyle
    \/ WalkEvent
    \/ pc = "handler" /\ ops < Len(program.handler) /\ Perform(program.handler[ops + 1])
    \/ pc = "handler" /\ ops = Len(program.handler) /\ HandlerReturn
    \/ WalkReturn
    \/ CompileReturn

SpecReplay == InitReplay /\ [][NextReplay]_vars

\* compile over components with one element and one handler, and hook calls
\* made by code that compile does not run
NextOutside ==
    \/ CompileBegin
    \/ OpUseState(Num(7), "Int")
    \/ OpThrow
    \/ \E el \in HandlerElements : RenderReturn(el)
    \/ WalkChildren
    \/ WalkStyle
    \/ WalkEvent
    \/ HandlerReturn
    \/ CompileReturn
    \/ \E iv \in {<<Str("a"), "">>, <<Num(7), "Int">>} : OutsideUseState(iv[1], iv[2])
    \/ OutsideUseRef

SpecOutside == Init /\ [][NextOutside]_vars

\* compile over components whose elements carry a style prop
NextStyle ==
    \/ CompileBegin
    \/ OpUseState(Num(7), "Int")
    \/ \E el \in StyleElements : RenderReturn(el)
    \/ \E el \in StyleElements : el.children = << >> /\ WalkEnter(el)
    \/ WalkChildren
    \/ WalkLowered
    \/ WalkStyle
    \/ WalkReturn
    \/ CompileReturn

SpecStyle == Init /\ [][NextStyle]_vars

\* compile over components whose function declares numeric state, formats
\* it and sets it
NextNumeric ==
    \/ CompileBegin
    \/ \E iv \in NumericInitialValues : OpUseState(iv[1], iv[2])
    \/ \E type \in OtherTypes : OpUseState(Num(7), type)
    \/ \E b \in StateBindings : OpFmt(<< Bind(b) >>)
    \/ OpSet(1, Num(7))
    \/ \E el \in NumericElements : RenderReturn(el)
    \/ WalkChildren
    \/ WalkStyle
    \/ CompileReturn

SpecNumeric == Init /\ [][NextNumeric]_vars

\* a component function that creates locals, promotes them to state and
\* returns an element whose text shows the state
LocalsElements ==
    [type : {"text"},
     ref : {NoRef},
     children : {<< >>} \cup {<< [k |-> "marker", o |-> b], StringChild >> : b \in StateBindings},
     style : {NoStyle},
     handlers : {<< >>}]

NextLocals ==
    \/ CompileBegin
    \/ \E b \in LocalBindings : OpUseState(Bind(b), "")
    \/ OpUseState(Str("a"), "")
    \/ OpNew
    \/ OpFmt(<< Str("a") >>)
    \/ \E el \in LocalsElements : RenderReturn(el)
    \/ WalkChildren
    \/ WalkStyle
    \/ CompileReturn

SpecLocals == Init /\ [][NextLocals]_vars

\* a component function that makes one reference and returns a widget with
\* two children, buttons or text inputs; a child may carry the reference, and
\* may carry a click handler that reads the value of the reference
RefChildren ==
    [type : {"button", "textinput"},
     ref : {NoRef, [k |-> "object", w |-> 1]},
     children : {<< >>},
     style : {NoStyle},
     handlers : SeqsUpTo({[event |-> "click", fn |-> 1]}, 1)]

RefRoot ==
    [type |-> "widget", ref |-> NoRef, children |-> << ElementChild, ElementChild >>,
     style |-> NoStyle, handlers |-> << >>]

\* one reference is attached to one element
RefPrograms ==
    {p \in [fixed : {TRUE}, kids : [1..2 -> RefChildren]] :
        Cardinality({i \in 1..2 : p.kids[i].ref # NoRef}) <= 1}

InitRefs ==
    /\ pc = "idle"
    /\ contextList = << >>
    /\ ctxs = << >>
    /\ comp = 0
    /\ nextUid = 1
    /\ widgets = << >>
    /\ frames = << >>
    /\ elems = 0
    /\ hcall = NoCall
    /\ invoked = [h \in HandlerFns |-> 0]
    /\ seenProps = << >>
    /\ fmtLog = << >>
    /\ ops = 0
    /\ compiles = 0
    /\ replaced = << >>
    /\ result = NoResult
    /\ pairBase = << >>
    /\ pairCtx = 0
    /\ pairPc = "none"
    /\ program \in RefPrograms
    /\ previous = NoResult
    /\ outside = NoOutside

NextRefs ==
    \/ CompileBegin
    \/ ops = 0 /\ OpUseRef
    \/ ops = 1 /\ RenderReturn(RefRoot)
    \/ /\ Walking("lower")
       /\ Len(TopFrame.kids) < Len(program.kids)
       /\ WalkEnter(program.kids[Len(TopFrame.kids) + 1])
    \/ WalkChildren
    \/ WalkLowered
    \/ WalkStyle
    \/ WalkEvent
    \/ ops = 0 /\ pc = "handler" /\ OpValue(1)
    \/ ops = 1 /\ HandlerReturn
    \/ WalkReturn
    \/ CompileReturn

SpecRefs == InitRefs /\ [][NextRefs]_vars

\* the exported push/pop pair over any stack
StackContexts ==
    (1 :> newComponentContext) @@ (2 :> createFunctionContext("f"))
        @@ (3 :> createFunctionContext("g"))

InitStack ==
    /\ pc = "idle"
    /\ ctxs = StackContexts
    /\ contextList \in SeqsUpTo(DOMAIN StackContexts, MaxStack - 2)
    /\ comp = 0
    /\ nextUid = 1
    /\ widgets = << >>
    /\ frames = << >>
    /\ elems = 0
    /\ hcall = NoCall
    /\ invoked = [h \in HandlerFns |-> 0]
    /\ seenProps = << >>
    /\ fmtLog = << >>
    /\ ops = 0
    /\ compiles = 0
    /\ replaced = << >>
    /\ result = NoResult
    /\ pairBase = << >>
    /\ pairCtx = 0
    /\ pairPc = "none"
    /\ program = NoProgram
    /\ previous = NoResult
    /\ outside = NoOutside

NextStack ==
    \/ \E c \in DOMAIN ctxs : PushStep(c)
    \/ PopStep

SpecStack == InitStack /\ [][NextStack]_vars

(***************************************************************************)
(* Properties of the context stack.                                        *)
(***************************************************************************)

\* C1: pushFunctionComponent(ctx) followed by popFunctionComponent(ctx)
\* leaves the context stack with the contents and the depth it had before
\* the push, for any stack and any ctx.
C1_PairRestoresStack ==
    pairPc = "popped" => contextList = pairBase

\* an event prop whose handler was not among the props compiled before
UnseenProp(props, h) == \A i \in 1..Len(props) : props[i].handler # h

\* C2: an event prop with an unseen handler invokes the handler exactly
\* once, synchronously, with a fresh Context pushed before the call and
\* popped right after it: on the normal return the stack is what it was
\* before, and every statement and local the handler produced is in the
\* handler's own Context.
C2_HandlerTracedOnceInOwnContext ==
    [][
        \* transformEventHandler is given an event prop
        /\ Len(seenProps') > Len(seenProps) =>
              LET h == seenProps'[Len(seenProps')].handler IN
              IF UnseenProp(seenProps, h)
              THEN /\ pc' = "handler"
                   /\ invoked[h] = 0 /\ invoked'[h] = 1
                   /\ hcall'.ctx \notin DOMAIN ctxs
                   /\ ctxs'[hcall'.ctx].body = << >>
                   /\ ctxs'[hcall'.ctx].locals = << >>
                   /\ contextList' = Append(contextList, hcall'.ctx)
              ELSE pc' = "walk" /\ invoked' = invoked /\ contextList' = contextList
        \* the handler runs: nothing else does, and only its Context grows
        /\ pc = "handler" /\ pc' = "handler" =>
              /\ contextList' = contextList
              /\ invoked' = invoked
              /\ frames' = frames
              /\ \A c \in DOMAIN ctxs \ {hcall.ctx} :
                    /\ ctxs'[c].body = ctxs[c].body
                    /\ ctxs'[c].locals = ctxs[c].locals
        \* the handler returns
        /\ pc = "handler" /\ pc' = "walk" =>
              /\ contextList' = hcall.base
              /\ invoked' = invoked
              /\ ctxs' = ctxs
        \* no handler is invoked twice
        /\ \A h \in HandlerFns : invoked'[h] <= 1
    ]_vars

C2_Witness ==
    /\ pc = "walk"
    /\ hcall.status = "returned"
    /\ invoked[hcall.fn] = 1
    /\ contextList = hcall.base
    /\ ctxs[hcall.ctx].body # << >>
    /\ ctxs[hcall.ctx].locals # << >>
    /\ ctxs[comp].locals = << >>
    /\ ctxs[comp].body = << >>

\* C3: between the start of compile and its return, the bottom of the
\* context stack is the ComponentContext that compile created, and no other
\* element of the stack is a ComponentContext.
C3_ComponentContextAtBottom ==
    pc \in {"render", "walk", "handler"} =>
        /\ Len(contextList) >= 1
        /\ contextList[1] = comp
        /\ ctxs[comp].kind = "ComponentContext"
        /\ \A i \in 2..Len(contextList) : ctxs[contextList[i]].kind # "ComponentContext"

C3_Witness ==
    /\ pc = "handler"
    /\ compiles = 2
    /\ Len(replaced) = 2
    /\ Len(contextList) = 2
    /\ ops > 0

\* C4: starting a compilation resets the context stack: right after
\* setComponentContext the stack holds exactly one element, the new
\* ComponentContext with empty state, refs, eventHandlers, locals and body,
\* whatever the stack held before.
C4_CompileResetsStack ==
    [][
        compiles' = compiles + 1 =>
            /\ contextList' = << comp' >>
            /\ ctxs'[comp'].kind = "ComponentContext"
            /\ ctxs'[comp'].state = << >>
            /\ ctxs'[comp'].refs = << >>
            /\ ctxs'[comp'].eventHandlers = << >>
            /\ ctxs'[comp'].locals = << >>
            /\ ctxs'[comp'].body = << >>
    ]_vars

\* the compilation before left two Contexts on the stack
C4_Witness ==
    /\ pc = "render"
    /\ ops = 0
    /\ compiles = 2
    /\ Len(replaced) = 2
    /\ contextList = << comp >>
    /\ ctxs[comp].state = << >>

(***************************************************************************)
(* Properties of the children pass.                                        *)
(***************************************************************************)
HasMarker(children) == \E i \in 1..Len(children) : children[i].k = "marker"
HasElement(children) == \E i \in 1..Len(children) : children[i].k = "element"
LiteralOnly(children) == \A i \in 1..Len(children) : children[i].k \in {"string", "number"}

\* what a child contributes: its text, or the Binding it wraps
ChildArg(child) ==
    CASE child.k = "string" -> Str(child.s)
      [] child.k = "number" -> Str(ToString(child.n))
      [] child.k = "marker" -> Bind(child.o)
      [] OTHER -> Bool(TRUE)

RECURSIVE TextOf(_)
TextOf(children) ==
    IF Len(children) = 0 THEN ""
    ELSE ChildArg(children[1]).s \o TextOf(Tail(children))

\* transformReactNode is about to call transformNodeChildren
ChildrenStep ==
    /\ pc = "walk"
    /\ Len(frames) > 0
    /\ TopFrame.stage = "children"
    /\ ~noChildren(TopFrame.el.children)

NodeAfter == frames'[Len(frames)].node

\* C5: for a child list of literal strings and numbers only,
\* transformNodeChildren sets the Node's text to the ordered concatenation
\* of the children and leaves the ComponentContext's body, locals and refs
\* and the Node's children and ref unchanged.
C5_LiteralChildrenBecomeText ==
    [][
        ChildrenStep /\ LiteralOnly(TopFrame.el.children) =>
            /\ pc' = "walk"
            /\ Len(frames') = Len(frames)
            /\ NodeAfter.text = TextOf(TopFrame.el.children)
            /\ NodeAfter.children = TopFrame.node.children
            /\ NodeAfter.ref = TopFrame.node.ref
            /\ ctxs'[comp].body = ctxs[comp].body
            /\ ctxs'[comp].locals = ctxs[comp].locals
            /\ ctxs'[comp].refs = ctxs[comp].refs
    ]_vars

C5_Witness ==
    /\ pc = "walk"
    /\ Len(frames) > 0
    /\ TopFrame.stage = "style"
    /\ TopFrame.el.children = << StringChild, NumberChild >>
    /\ TopFrame.node.text = "a7"
    /\ Len(ctxs[comp].state) > 0

\* the statements the step appended to the ComponentContext's body
NewBody == SubSeq(ctxs'[comp].body, Len(ctxs[comp].body) + 1, Len(ctxs'[comp].body))

\* the step made exactly one fmt call, over args, and assigned its result by
\* exactly one ui_widget_set_text against one reference allocated for the Node
FormatsOnce(args) ==
    /\ fmtLog' = << args >>
    /\ Cardinality({i \in 1..Len(NewBody) : StartsWith(NewBody[i], "ui_widget_set_text(")}) = 1
    /\ Len(ctxs'[comp].refs) = Len(ctxs[comp].refs) + 1
    /\ Len(ctxs'[comp].locals) > Len(ctxs[comp].locals)
    /\ LET ref == ctxs'[comp].refs[Len(ctxs'[comp].refs)]
           str == ctxs'[comp].locals[Len(ctxs[comp].locals) + 1].identifier
       IN /\ NodeAfter.ref = ref
          /\ NewBody[Len(NewBody)] =
                "ui_widget_set_text(_that->refs." \o ref \o ", " \o str \o ")"

\* C6 as stated: for a child list with at least one marker, whatever the
\* other children are, all children go in source order to exactly one fmt
\* call whose result is assigned by exactly one ui_widget_set_text against
\* one reference allocated for the Node.
C6_AnyListWithMarkerFormatsOnce ==
    [][
        ChildrenStep /\ HasMarker(TopFrame.el.children) /\ pc' = "walk" =>
            FormatsOnce(Map(TopFrame.el.children, ChildArg))
    ]_vars

\* C6 amended: for a child list with at least one marker and no element,
\* the string, number and marker children (any other child is skipped) go
\* in source order to exactly one fmt call whose result is assigned by
\* exactly one ui_widget_set_text against one reference allocated for the
\* Node.
C6_MarkerListWithoutElementFormatsOnce ==
    [][
        /\ ChildrenStep
        /\ HasMarker(TopFrame.el.children)
        /\ ~HasElement(TopFrame.el.children)
        /\ pc' = "walk"
        =>
        FormatsOnce(Map(SelectSeq(TopFrame.el.children, LAMBDA ch : ch.k # "other"),
                        ChildArg))
    ]_vars

C6_Witness ==
    /\ pc = "walk"
    /\ Len(frames) > 0
    /\ TopFrame.stage = "style"
    /\ HasMarker(TopFrame.el.children)
    /\ ~HasElement(TopFrame.el.children)
    /\ Len(fmtLog) = 1
    /\ Len(fmtLog[1]) = 2
    /\ TopFrame.node.ref # ""
    /\ ctxs[comp].refs = << TopFrame.node.ref >>

(***************************************************************************)
(* Properties of the generated statements.                                 *)
(***************************************************************************)

\* the component function made one fmt call and went on
FmtStep == pc = "render" /\ pc' = "render" /\ Len(fmtLog') = 1

\* C7: fmt over N >= 1 arguments declares a length accumulator initialised
\* to 8 and appends to the active Context's body, in this order: the
\* stringification statements of the arguments, one `len += strlen(arg_i)`
\* per argument in argument order, exactly one allocation of `len` bytes,
\* one strcpy for the first argument and one strcat for each later argument
\* in argument order.
C7_FmtStatementOrder ==
    [][
        FmtStep =>
        LET args == fmtLog'[1]
            N == Len(args)
            before == ctxs[Top]
            after == ctxs'[Top]
            newB == SubSeq(after.body, Len(before.body) + 1, Len(after.body))
            newL == SubSeq(after.locals, Len(before.locals) + 1, Len(after.locals))
            K == Len(newB) - (2 * N + 1)
            str == newL[1].identifier
            len == newL[2].identifier
            alloc == str \o " = malloc(sizeof(char) * " \o len \o ")"
            incr(name) == len \o " += strlen(" \o name \o ")"
            copy(i, name) ==
                (IF i = 1 THEN "strcpy" ELSE "strcat") \o "(" \o str \o ", " \o name \o ")"
            \* the name an argument goes by once stringified
            named(arg, name) ==
                IF arg.t = "binding" /\ arg.o.type = "String"
                THEN name = arg.o.name
                ELSE \E j \in 3..Len(newL) : newL[j].identifier = name
            names == {after.locals[j].identifier : j \in 1..Len(after.locals)}
                        \cup {args[i].o.name : i \in {j \in 1..N : args[j].t = "binding"}}
        IN /\ N >= 1
           /\ Len(newL) >= 2
           /\ newL[1].initializer.type = "String"
           /\ len = str \o "_len"
           /\ newL[2].initializer.initializer.kind = "NumericLiteral"
           /\ newL[2].initializer.initializer.text = "8"
           /\ K >= 0
           /\ \A i \in 1..K :
                 /\ ~StartsWith(newB[i], len \o " += ")
                 /\ newB[i] # alloc
                 /\ ~StartsWith(newB[i], "strcpy(" \o str \o ", ")
                 /\ ~StartsWith(newB[i], "strcat(" \o str \o ", ")
           /\ newB[K + N + 1] = alloc
           /\ \E a \in [1..N -> names] :
                 \A i \in 1..N :
                    /\ named(args[i], a[i])
                    /\ newB[K + i] = incr(a[i])
                    /\ newB[K + N + 1 + i] = copy(i, a[i])
    ]_vars

C7_Witness ==
    /\ pc = "render"
    /\ Len(fmtLog) = 1
    /\ Len(fmtLog[1]) = 2
    /\ fmtLog[1][1].t = "binding"
    /\ fmtLog[1][1].o.type = "Int"
    /\ fmtLog[1][2].t = "string"
    /\ Len(ctxs[Top].body) = 8

\* a local that owns what it holds and must release it
Owning(local) ==
    /\ ~local.initializer.keepAlive
    /\ local.initializer.initializer.kind \in {"StringLiteral", "NewExpression"}

DestroyerOf(local) ==
    "        "
       \o (IF local.initializer.initializer.kind = "StringLiteral"
           THEN "free(" \o local.initializer.name \o ")"
           ELSE local.initializer.initializer.identifier \o "_destroy("
                    \o local.initializer.name \o ")")
       \o ";"

\* statements of a generated function: the _that declaration, the Context's
\* body, the update call
StatementCount(ctx) ==
    1 + Cardinality({i \in 1..Len(ctx.body) : ctx.body[i] # ""})
      + (IF ctx.hasStateOperation THEN 1 ELSE 0)

\* what follows the statements of a generated function, up to its brace
AfterStatements(ctx, func) ==
    SubSeq(func, 2 + Len(ctx.locals) + StatementCount(ctx) + 1, Len(func) - 1)

DestroysItsLocals(ctx, func) ==
    AfterStatements(ctx, func) = Map(SelectSeq(ctx.locals, Owning), DestroyerOf)

HandlerContext(i) == ctxs[ctxs[comp].eventHandlers[i].context]

\* C8: in every generated function, each local of the originating Context
\* that is owning, has a string or construction initializer and was not
\* promoted to state gets exactly one destroyer statement; a local with a
\* numeric initializer gets none.
C8_OneDestroyerPerOwningLocal ==
    result.status = "ok" =>
        /\ DestroysItsLocals(ctxs[comp], result.reactCode.update)
        /\ \A i \in 1..Len(result.reactCode.events.handlers) :
              DestroysItsLocals(HandlerContext(i), result.reactCode.events.handlers[i])

C8_Witness ==
    /\ result.status = "ok"
    /\ Len(ctxs[comp].state) = 1
    /\ ctxs[comp].state[1].initializer.initializer.kind = "NewExpression"
    /\ ctxs[comp].locals = << >>
    /\ Len(result.reactCode.events.handlers) = 1
    /\ \E i, j, k \in 1..Len(HandlerContext(1).locals) :
          /\ Owning(HandlerContext(1).locals[i])
          /\ HandlerContext(1).locals[j].initializer.initializer.kind = "NumericLiteral"
          /\ HandlerContext(1).locals[k].initializer.initializer.kind = "NewExpression"

UpdateLine == "        " \o ComponentName \o "_react_update(e->data);"

\* a state setter is called while a handler is traced
SetterStep ==
    /\ pc = "handler"
    /\ \E i \in 1..MaxRenderOps, v \in HandlerValues : OpSet(i, v)

SetterSetsFlag == SetterStep => ctxs'[hcall.ctx].hasStateOperation

\* C9 as stated: a state setter called in a handler sets hasStateOperation
\* on the handler's Context, and the emitted handler function's last
\* statement is the call to the update function, whatever value the setter
\* was given.
C9_UpdateCallIsLastStatement ==
    [][
        /\ SetterSetsFlag
        /\ result'.status = "ok" =>
              \A i \in 1..Len(result'.reactCode.events.handlers) :
                 LET func == result'.reactCode.events.handlers[i] IN
                 ctxs'[ctxs'[comp'].eventHandlers[i].context].hasStateOperation =>
                    func[Len(func) - 1] = UpdateLine
    ]_vars

\* the update call is the last of the function's statements and only the
\* destroyers of the Context's locals follow it
UpdateCallEndsBody(ctx, func) ==
    LET p == 2 + Len(ctx.locals) + StatementCount(ctx) IN
    /\ {j \in 1..Len(func) : func[j] = UpdateLine} = {p}
    /\ \A j \in (p + 1)..(Len(func) - 1) :
          \E l \in 1..Len(ctx.locals) :
             Owning(ctx.locals[l]) /\ func[j] = DestroyerOf(ctx.locals[l])

\* C9 amended: a state setter called in a handler sets hasStateOperation on
\* the handler's Context, and in the emitted handler function the call to
\* the update function follows every statement of the handler and is
\* followed only by the destroyers of the handler's locals.
C9_UpdateCallEndsHandlerBody ==
    [][
        /\ SetterSetsFlag
        /\ result'.status = "ok" =>
              \A i \in 1..Len(result'.reactCode.events.handlers) :
                 LET ctx == ctxs'[ctxs'[comp'].eventHandlers[i].context] IN
                 ctx.hasStateOperation =>
                    UpdateCallEndsBody(ctx, result'.reactCode.events.handlers[i])
    ]_vars

\* a string was assigned to a string state: its temporary is freed after
\* the update call
C9_Witness ==
    /\ result.status = "ok"
    /\ Len(result.reactCode.events.handlers) = 1
    /\ HandlerContext(1).hasStateOperation
    /\ \E l \in 1..Len(HandlerContext(1).locals) : Owning(HandlerContext(1).locals[l])
    /\ LET func == result.reactCode.events.handlers[1] IN
          /\ func[Len(func) - 1] # UpdateLine
          /\ \E j \in 1..Len(func) : func[j] = UpdateLine

\* the same handler function was given to two elements
SharedHandler ==
    \E i, j \in 1..Len(seenProps) :
        /\ i # j
        /\ seenProps[i].handler = seenProps[j].handler
        /\ seenProps[i].target # seenProps[j].target

\* a ui_widget_on statement that registers the handler function `name` on
\* the element of the event prop, however it spells the element's reference
Registers(line, prop, name) ==
    /\ StartsWith(line, "        ui_widget_on(")
    /\ EndsWith(line, prop.target \o ", \"" \o prop.eventName \o "\", "
                         \o ComponentName \o "_" \o name \o ", w);")

\* C10: when the identical handler function is an event prop of two
\* elements, the handler is traced once, one handler function is generated,
\* and the registration function holds one ui_widget_on per element, both
\* naming that handler.
C10_SharedHandlerRegisteredPerElement ==
    result.status = "ok" /\ SharedHandler =>
        LET events == result.reactCode.events
            fns == {seenProps[i].handler : i \in 1..Len(seenProps)}
            decl(h) == CHOOSE d \in {ctxs[comp].eventHandlers[i] :
                                        i \in 1..Len(ctxs[comp].eventHandlers)} :
                          d.handler = h
        IN /\ \A h \in fns : invoked[h] = 1
           /\ Len(events.handlers) = Cardinality(fns)
           /\ Cardinality({j \in 1..Len(events.register) :
                              StartsWith(events.register[j], "        ui_widget_on(")})
                 = Len(seenProps)
           /\ \A i \in 1..Len(seenProps) :
                 \E j \in 1..Len(events.register) :
                    Registers(events.register[j], seenProps[i],
                              ctxs[decl(seenProps[i].handler).context].name)

(***************************************************************************)
(* Compiling twice.                                                        *)
(***************************************************************************)
\* C11: compiling the same component function with the same props and options
\* twice in a row gives the same result (name, node tree, refs, header files,
\* types code, generated code, or the same error): whatever the first
\* compilation left in the stack and in its contexts, the second returns what
\* the first returned.
C11_SecondCompileSameResult ==
    (compiles >= 2 /\ pc \in {"done", "failed"}) => result = previous

\* a second compilation returned generated code for a component with state, a
\* local, a nested element and a handler that calls a setter, although the
\* first compilation's ComponentContext was still on the stack when it began
C11_Witness ==
    /\ compiles = 2
    /\ pc = "done"
    /\ result.status = "ok"
    /\ previous = result
    /\ Len(replaced) = 1
    /\ Len(ctxs[comp].state) > 0
    /\ Len(ctxs[comp].locals) > 0
    /\ Len(ctxs[comp].eventHandlers) > 0
    /\ Len(result.node.children) > 0
    /\ \E i \in 1..Len(program.handler) : program.handler[i].op = "set"

(***************************************************************************)
(* State promotion.                                                        *)
(***************************************************************************)
IdentifierChars ==
    {"a", "b", "c", "d", "e", "f", "g", "h", "i", "j", "k", "l", "m", "n", "o", "p", "q",
     "r", "s", "t", "u", "v", "w", "x", "y", "z", "_", "0", "1", "2", "3", "4", "5", "6",
     "7", "8", "9"}

\* the C statement `line` uses the identifier `name`
RefersTo(line, name) ==
    \E i \in 1..(Len(line) - Len(name) + 1) :
        /\ SubSeq(line, i, i + Len(name) - 1) = name
        /\ i > 1 => SubSeq(line, i - 1, i - 1) \notin IdentifierChars
        /\ i + Len(name) <= Len(line) =>
               SubSeq(line, i + Len(name), i + Len(name)) \notin IdentifierChars

\* the local declarations of the ComponentContext that hold the Binding
\* the step has just appended to the state list
PromotedLocals ==
    LET before == ctxs[comp]
        after == ctxs'[comp]
    IN {i \in 1..Len(before.locals) :
           /\ Len(after.state) = Len(before.state) + 1
           /\ after.state[Len(after.state)].initializer.uid = before.locals[i].initializer.uid}

\* a useState(binding) step over a Binding declared as a local
PromotionStep ==
    /\ pc = "render" /\ pc' = "render"
    /\ comp \in DOMAIN ctxs /\ comp' = comp
    /\ PromotedLocals # {}

\* C12: after useState is given a Binding declared as a local of the
\* ComponentContext, the Binding is in no local declaration, is in the state
\* list exactly once under the state name, no statement left in the body
\* refers to the Binding's old local name, and the statements that did not
\* refer to it are all kept, in order.
C12_PromotionRetractsLocal ==
    [][PromotionStep =>
        \A i \in PromotedLocals :
            LET before == ctxs[comp]
                after == ctxs'[comp]
                old == before.locals[i].initializer
                holds(decls) == {j \in 1..Len(decls) : decls[j].initializer.uid = old.uid}
            IN /\ holds(after.locals) = {}
               /\ holds(after.state) = {Len(after.state)}
               /\ after.state[Len(after.state)].identifier = stateNameAt(before)
               /\ after.state[Len(after.state)].initializer.name
                      = "_that->state." \o stateNameAt(before)
               /\ \A j \in 1..Len(after.body) : ~RefersTo(after.body[j], old.name)
               /\ after.body = SelectSeq(before.body, LAMBDA line : ~RefersTo(line, old.name))
    ]_vars

(***************************************************************************)
(* Hooks called while no compile is running.                               *)
(***************************************************************************)
\* a useState or useRef call made while no compile is running
OutsideHookStep ==
    /\ pc \in {"idle", "done", "failed"}
    /\ outside'.calls = outside.calls + 1

\* C13: whenever no compilation is active, before the first compile as well
\* as after a compile has returned or failed, useState and useRef fail with an
\* error and change no context.
C13_HooksFailOutsideCompile ==
    [][OutsideHookStep =>
          /\ outside'.status = "threw"
          /\ ctxs' = ctxs
          /\ contextList' = contextList]_vars

(***************************************************************************)
(* The style prop.                                                         *)
(***************************************************************************)
\* transformReactNode is about to look at the style prop of its element
StyleStep == Walking("style")

\* the statements of every Context
AllBodies(cs) == [i \in DOMAIN cs |-> cs[i].body]

\* C14: an element whose style prop is present with a value that is not an
\* object (a string, a number, a boolean) aborts the compilation with an
\* error: no style statement is emitted and compile returns no result.
C14_NonObjectStyleAborts ==
    [][(StyleStep /\ TopFrame.el.style.k \in {"string", "number", "boolean"}) =>
          /\ pc' = "failed"
          /\ result'.status = "error"
          /\ AllBodies(ctxs') = AllBodies(ctxs)]_vars

(***************************************************************************)
(* The emitted types.                                                      *)
(***************************************************************************)
\* index of the line that closes the first struct of the types code
StateStructEnd(lines) ==
    CHOOSE k \in 1..Len(lines) :
        /\ StartsWith(lines[k], "}")
        /\ \A j \in 1..(k - 1) : ~StartsWith(lines[j], "}")

\* the field lines of the state struct
StateFields(lines) == SubSeq(lines, 2, StateStructEnd(lines) - 1)

\* the lines of the component struct, which follows the state struct
ComponentStruct(lines) == SubSeq(lines, StateStructEnd(lines) + 1, Len(lines))

\* the name the i-th useState call of the component gives its state
NameOfCall(i) ==
    IF i <= Len(StateNames) THEN StateNames[i] ELSE "unnamed_state_" \o ToString(i - 1)

\* C15: in the types code a compile returns, the state struct has exactly one
\* field per state declaration, in useState call order, or the single
\* placeholder field when there is no state, and the component struct has a
\* refs member if and only if at least one reference was allocated.
C15_TypesMatchStateAndRefs ==
    (pc = "done" /\ result.status = "ok") =>
        LET lines == result.typesCode
            state == ctxs[comp].state
            fields == StateFields(lines)
        IN /\ lines[1] = "typedef struct " \o ComponentName \o "_react_state {"
           /\ IF Len(state) = 0
              THEN fields = << "        char empty;" >>
              ELSE /\ Len(fields) = Len(state)
                   /\ \A i \in 1..Len(state) :
                         /\ StartsWith(fields[i], "        ")
                         /\ EndsWith(fields[i], " " \o NameOfCall(i) \o ";")
           /\ (\E j \in 1..Len(ComponentStruct(lines)) :
                    ComponentStruct(lines)[j] = "        " \o ComponentName \o "_refs_t refs;")
                <=> Len(result.refs) > 0

\* a compile returned types for two states and at least one reference
C15_Witness ==
    /\ pc = "done"
    /\ result.status = "ok"
    /\ Len(ctxs[comp].state) = 2
    /\ Len(result.refs) > 0
    /\ Len(StateFields(result.typesCode)) = 2

(***************************************************************************)
(* The lifecycle wrappers.                                                 *)
(***************************************************************************)
\* the positions of the statements of `func` that call `callee` on the widget
CallsTo(func, callee) ==
    {i \in 1..Len(func) : StartsWith(func[i], "        " \o ComponentName \o callee \o "(w")}

\* the render trace recorded statements: the update function has more than
\* the line that fetches the component data
HasRenderStatements == Len(ctxs[comp].body) > 0

\* the init wrapper runs the update function exactly once
InitRunsUpdate == Cardinality(CallsTo(result.reactCode.init, "_react_update")) = 1

\* a component whose render trace recorded statements has them run once at
\* init
RenderStatementsRunAtInit ==
    (pc = "done" /\ result.status = "ok" /\ HasRenderStatements) => InitRunsUpdate

\* C16: for every compiled component the init wrapper calls, in this order,
\* the load-template step, the state initialisation, the event-handler
\* registration and the update function, and the destroy wrapper calls the
\* state destruction; in particular a component whose render trace recorded
\* statements has them run once at init.
C16_InitRunsLifecycleInOrder ==
    (pc = "done" /\ result.status = "ok") =>
        LET init == result.reactCode.init
            destroy == result.reactCode.destroy
        IN /\ \E l \in CallsTo(init, "_load_template"), st \in CallsTo(init, "_react_init_state"),
                 ev \in CallsTo(init, "_react_init_events"), up \in CallsTo(init, "_react_update") :
                   l < st /\ st < ev /\ ev < up
           /\ CallsTo(destroy, "_react_destroy_state") # {}
           /\ RenderStatementsRunAtInit

(***************************************************************************)
(* Stringification.  fmt(b) over one Binding b stringifies b and then adds *)
(* its own two locals (declared first) and its own three statements        *)
(* (emitted last).                                                         *)
(***************************************************************************)
\* a fmt call over exactly one argument, a Binding of one of `types`
StringifyStep(types) ==
    /\ FmtStep
    /\ Len(fmtLog'[1]) = 1
    /\ fmtLog'[1][1].t = "binding"
    /\ fmtLog'[1][1].o.type \in types

\* the Binding that was stringified
Stringified == fmtLog'[1][1].o

\* the locals the stringification declared
StringifyLocals ==
    SubSeq(ctxs'[Top].locals, Len(ctxs[Top].locals) + 3, Len(ctxs'[Top].locals))

\* the statements the stringification emitted
StringifyBody ==
    SubSeq(ctxs'[Top].body, Len(ctxs[Top].body) + 1, Len(ctxs'[Top].body) - 3)

\* the stringification returned the Binding called `name`: it is the one fmt
\* measures and copies
StringifyReturned(name) ==
    LET fmtBody == SubSeq(ctxs'[Top].body, Len(ctxs'[Top].body) - 2, Len(ctxs'[Top].body))
        str == ctxs'[Top].locals[Len(ctxs[Top].locals) + 1].identifier
    IN /\ fmtBody[1] = str \o "_len += strlen(" \o name \o ")"
       /\ fmtBody[3] = "strcpy(" \o str \o ", " \o name \o ")"

\* C17: stringifying an opaque-object Binding declares one string local,
\* emits one statement that assigns it `<Type>_to_string(obj)` and returns that
\* string Binding; no snprintf buffer is created for it.
C17_ObjectStringifiedByToString ==
    [][StringifyStep({"Object"}) =>
          /\ Len(StringifyLocals) = 1
          /\ StringifyLocals[1].initializer.type = "String"
          /\ StringifyBody =
                << StringifyLocals[1].identifier \o " = "
                     \o Stringified.initializer.identifier \o "_to_string("
                     \o Stringified.name \o ")" >>
          /\ StringifyReturned(StringifyLocals[1].identifier)
          /\ \A i \in 1..Len(StringifyBody) : ~StartsWith(StringifyBody[i], "snprintf(")
    ]_vars

\* the printf conversion of each numeric subtype
FormatOf == [Int |-> "%d", Size |-> "%zu", Double |-> "%lf"]

\* the state declaration a useState call has just appended
NewState == ctxs'[comp].state[Len(ctxs'[comp].state)]

\* C18: a numeric Binding created with subtype int, size or double keeps
\* that subtype, and stringifying it emits, in this order, a 32-byte
\* allocation, one snprintf with the format of the subtype (%d, %zu, %lf) and
\* a statement that forces the last byte to the terminator.
C18_NumericKeepsSubtypeAndFormat ==
    [][/\ \A type \in cNumericTypes :
             OpUseState(Num(7), type) =>
                 /\ Len(ctxs'[comp].state) = Len(ctxs[comp].state) + 1
                 /\ NewState.initializer.type = type
       /\ StringifyStep(cNumericTypes) =>
             /\ Len(StringifyLocals) = 1
             /\ StringifyLocals[1].initializer.type = "String"
             /\ StringifyBody =
                   LET str == StringifyLocals[1].identifier IN
                   << str \o " = malloc(sizeof(char) * 32)",
                      "snprintf(" \o str \o ", 31, \"" \o FormatOf[Stringified.type] \o "\", "
                          \o Stringified.name \o ")",
                      str \o "[31] = 0" >>
             /\ StringifyReturned(StringifyLocals[1].identifier)
    ]_vars

\* a state declared with subtype size was stringified with %zu
C18_Witness ==
    /\ pc = "render"
    /\ Len(fmtLog) = 1
    /\ Len(fmtLog[1]) = 1
    /\ fmtLog[1][1].t = "binding"
    /\ fmtLog[1][1].o.type = "Size"
    /\ Len(ctxs[comp].state) = 1
    /\ ctxs[comp].state[1].initializer.type = "Size"
    /\ Len(ctxs[comp].body) = 6
    /\ ctxs[comp].body[2] = "snprintf(str_2, 31, \"%zu\", _that->state.s0)"

(***************************************************************************)
(* Bindings that are kept alive.                                           *)
(***************************************************************************)
\* `line` of a generated function releases the variable `name`
Releases(line, name) ==
    \/ line = "        free(" \o name \o ");"
    \/ EndsWith(line, "_destroy(" \o name \o ");")

\* the function generated from ctx releases none of the locals of ctx that
\* are marked keepAlive
KeepsAlive(ctx, func) ==
    \A j \in 1..Len(ctx.locals) :
        ctx.locals[j].initializer.keepAlive =>
            \A k \in 1..Len(func) : ~Releases(func[k], ctx.locals[j].initializer.name)

\* an initializer of every kind, and none
AnyInitializer ==
    {NoInit, createStringLiteral(Null), createStringLiteral(Str("a")),
     createNumericLiteral(7, "Int"),
     [kind |-> "NewExpression", identifier |-> "Foo", arguments |-> << >>]}

\* C19: a Binding marked keepAlive gets no destroyer statement in the
\* function generated from its Context, whatever its initializer; the string
\* returned by reading the value of a text input is not freed at the end of
\* the handler that read it.
C19_KeepAliveNeverDestroyed ==
    /\ \A init \in AnyInitializer :
          LET obj == [createObjectBinding(0, "x", "Object", init) EXCEPT !.keepAlive = TRUE]
          IN ~compileObjectDestroyerThrows(obj) /\ compileObjectDestroyer(obj) = ""
    /\ result.status = "ok" =>
          /\ KeepsAlive(ctxs[comp], result.reactCode.update)
          /\ \A i \in 1..Len(result.reactCode.events.handlers) :
                KeepsAlive(HandlerContext(i), result.reactCode.events.handlers[i])

\* a handler read the value of a text input and formatted it: the generated
\* handler frees the string fmt made and not the one the read returned
C19_Witness ==
    /\ pc = "done"
    /\ result.status = "ok"
    /\ Len(result.reactCode.events.handlers) = 1
    /\ LET locals == HandlerContext(1).locals
           func == result.reactCode.events.handlers[1]
       IN /\ Len(locals) = 4
          /\ locals[1].initializer.keepAlive
          /\ locals[1].initializer.initializer.kind = "StringLiteral"
          /\ ~locals[3].initializer.keepAlive
          /\ \E k \in 1..Len(func) : Releases(func[k], locals[3].initializer.name)
          /\ \E k \in 1..Len(func) :
                func[k] = "        wcstombs(" \o locals[1].initializer.name \o ", "
                             \o locals[1].initializer.name \o "_wcs, "
                             \o locals[1].initializer.name \o "_len);"

(***************************************************************************)
(* Constructed objects.                                                    *)
(***************************************************************************)
\* the argument lists the traced code constructs with, and their C text
ConstructorArgs == {<< >>, << Num(7), Str("a") >>}

ArgsText(args) == IF args = << >> THEN "" ELSE "7, \"a\""

Constructed(local) == local.initializer.initializer.kind = "NewExpression"

\* in the function generated from ctx every constructed local of ctx is
\* declared with its construction call before the first statement and
\* destroyed exactly once, after the last statement
DeclaredBeforeDestroyedAfter(ctx, func) ==
    LET firstStatement == 2 + Len(ctx.locals) + 1
        lastStatement == 2 + Len(ctx.locals) + StatementCount(ctx)
    IN \A j \in 1..Len(ctx.locals) :
          Constructed(ctx.locals[j]) =>
              LET local == ctx.locals[j]
                  declaration ==
                      "        Foo " \o local.identifier \o " = Foo_create("
                          \o ArgsText(local.initializer.initializer.arguments) \o ");"
                  destroyer == "        Foo_destroy(" \o local.identifier \o ");"
              IN /\ {k \in 1..Len(func) : func[k] = declaration} = {2 + j}
                 /\ 2 + j < firstStatement
                 /\ \E d \in (lastStatement + 1)..(Len(func) - 1) :
                       {k \in 1..Len(func) : func[k] = destroyer} = {d}

\* C20: using a Binding as a constructor in a Context adds exactly one owning
\* local to that Context, with a `<Type>_create(args)` initializer, and adds no
\* body statement; in the generated function the declaration of the local
\* precedes every body statement and its `<Type>_destroy` call follows every
\* body statement.
C20_ConstructorDeclaresOwningLocal ==
    [][/\ \A args \in ConstructorArgs :
             OpNewWith(args) =>
                 LET before == ctxs[Top]
                     after == ctxs'[Top]
                     local == after.locals[Len(after.locals)]
                 IN /\ Len(after.locals) = Len(before.locals) + 1
                    /\ SubSeq(after.locals, 1, Len(before.locals)) = before.locals
                    /\ Owning(local)
                    /\ local.initializer.type = "Object"
                    /\ compileVariableDeclaration(local)
                          = "Foo " \o local.identifier \o " = Foo_create("
                               \o ArgsText(args) \o ")"
                    /\ after.body = before.body
                    /\ \A i \in DOMAIN ctxs \ {Top} : ctxs'[i] = ctxs[i]
       /\ result'.status = "ok" =>
             /\ DeclaredBeforeDestroyedAfter(ctxs'[comp], result'.reactCode.update)
             /\ \A i \in 1..Len(result'.reactCode.events.handlers) :
                   DeclaredBeforeDestroyedAfter(
                       ctxs'[ctxs'[comp].eventHandlers[i].context],
                       result'.reactCode.events.handlers[i])
    ]_vars

\* a handler constructed an object with arguments and then called a setter:
\* the generated handler declares the object, runs the assignment and the
\* update call, then destroys the object
C20_Witness ==
    /\ pc = "done"
    /\ result.status = "ok"
    /\ Len(result.reactCode.events.handlers) = 1
    /\ LET ctx == HandlerContext(1)
           func == result.reactCode.events.handlers[1]
       IN /\ Len(ctx.locals) = 1
          /\ Constructed(ctx.locals[1])
          /\ ctx.locals[1].initializer.initializer.arguments = << Num(7), Str("a") >>
          /\ ctx.hasStateOperation
          /\ Len(ctx.body) = 1
          /\ func[3] = "        Foo obj_0 = Foo_create(7, \"a\");"
          /\ func[Len(func) - 1] = "        Foo_destroy(obj_0);"

(***************************************************************************)
(* What a traced handler may change.                                       *)
(***************************************************************************)
\* the fields of a Context that receive generated code
CodeOf(ctx) ==
    [body |-> ctx.body, locals |-> ctx.locals, hasStateOperation |-> ctx.hasStateOperation]

\* C21: while an event handler is being traced, the Binding calls, fmt calls
\* and state-setter calls it makes change only the handler's own Context: the
\* body, locals and hasStateOperation flag of the ComponentContext and the
\* Context of every other handler are unchanged.
C21_HandlerChangesOnlyItsContext ==
    [][(pc = "handler" /\ hcall.status = "running") =>
          /\ DOMAIN ctxs' = DOMAIN ctxs
          /\ CodeOf(ctxs'[comp]) = CodeOf(ctxs[comp])
          /\ \A i \in DOMAIN ctxs \ {comp, hcall.ctx} : ctxs'[i] = ctxs[i]
    ]_vars

\* the second handler of the tree is being traced and has called fmt or a
\* setter; the first handler's Context holds the code of its own calls
C21_Witness ==
    /\ pc = "handler"
    /\ hcall.status = "running"
    /\ Len(ctxs[comp].eventHandlers) = 2
    /\ hcall.ctx = ctxs[comp].eventHandlers[2].context
    /\ Len(ctxs[hcall.ctx].locals) > 0
    /\ ctxs[hcall.ctx].hasStateOperation
    /\ Len(HandlerContext(1).body) > 0
    /\ CodeOf(ctxs[comp]) = CodeOf(createFunctionContext(ComponentName))

(***************************************************************************)
(* Names of the locals.                                                    *)
(***************************************************************************)
DistinctIdentifiers(locals) ==
    \A i, j \in 1..Len(locals) : locals[i].identifier = locals[j].identifier => i = j

\* C22: after any sequence of local-creating operations (string, numeric and
\* constructed variables, fmt, stringification) and state promotions in one
\* Context, the identifiers of the locals of that Context are pairwise
\* distinct.
C22_LocalIdentifiersDistinct ==
    \A i \in DOMAIN ctxs : DistinctIdentifiers(ctxs[i].locals)

(***************************************************************************)
(* Strings assigned to the state.                                          *)
(***************************************************************************)
\* `line` of a generated function assigns the variable `name` to a string
\* state field
AssignsToStringState(line, name) ==
    \E i \in 1..Len(ctxs[comp].state) :
        /\ ctxs[comp].state[i].initializer.type = "String"
        /\ line = "        " \o ctxs[comp].state[i].initializer.name \o " = " \o name \o ";"

\* the function generated from ctx does not release a local of ctx that it
\* assigns to a string state field
KeepsAssignedStrings(ctx, func) ==
    \A j \in 1..Len(ctx.locals) :
        LET name == ctx.locals[j].identifier IN
        ~ /\ \E k \in 1..Len(func) : AssignsToStringState(func[k], name)
          /\ \E k \in 1..Len(func) : Releases(func[k], name)

\* C23: a string local whose name the state setter assigns to a string state
\* field is never freed by the function that performs the assignment: no
\* generated handler contains both `state = local` and a destroyer for that
\* local, so no state field is left pointing at freed memory.
C23_AssignedStringNotFreed ==
    (pc = "done" /\ result.status = "ok") =>
        \A i \in 1..Len(result.reactCode.events.handlers) :
            KeepsAssignedStrings(HandlerContext(i), result.reactCode.events.handlers[i])

(***************************************************************************)
(* Reference names.                                                        *)
(***************************************************************************)
\* C24: the refs list of the ComponentContext never contains the same
\* reference name twice, for any combination of useRef calls, $ref attributes,
\* text bindings, style props and event props on the elements of the tree.
C24_RefNamesDistinct ==
    \A c \in DOMAIN ctxs :
        ctxs[c].kind = "ComponentContext" =>
            \A i, j \in 1..Len(ctxs[c].refs) : ctxs[c].refs[i] = ctxs[c].refs[j] => i = j

(***************************************************************************)
(* Reading the value of a reference in a handler.                          *)
(***************************************************************************)
\* the references of the component that its tree attaches to a text input
OnTextInput ==
    {w \in 1..Len(widgets) :
        \E i \in DOMAIN program.kids :
            /\ program.kids[i].type = "textinput"
            /\ program.kids[i].ref = [k |-> "object", w |-> w]}

\* C25: reading ref.current.value inside an event handler succeeds for a
\* reference attached to a text-input element, wherever that element stands in
\* the tree relative to the element carrying the handler (before it or after
\* it).
C25_HandlerReadsTextInputValue ==
    (pc = "handler" /\ hcall.status = "running") =>
        \A w \in OnTextInput : getWidgetValue(Machine, widgets[w]).err = ""

(***************************************************************************)
(* Emission after a walk that finished.                                    *)
(***************************************************************************)
\* the component function and the walk of the whole tree have returned
WalkFinished ==
    /\ Walking("events")
    /\ Len(frames) = 1
    /\ TopFrame.hidx > Len(TopFrame.el.handlers)

\* C26: if the component function and the tree walk finish without error,
\* emission (compileTypes and compileComponent) also finishes without error:
\* every state declaration that useState accepted, including one with a
\* boolean initial value, can be emitted as a struct field and an init-state
\* assignment.
C26_EmissionSucceedsAfterWalk ==
    WalkFinished =>
        /\ ~compileTypesThrows(ctxs[comp])
        /\ ~compileComponentThrows(ctxs[comp])

(***************************************************************************)
(* The exits of call.                                                      *)
(***************************************************************************)
\* call(handler, ctx) is left by this step, by return or by an exception
CallExit == hcall.status = "running" /\ hcall'.status \in {"returned", "threw"}

\* C27: call(handler, ctx) removes ctx from the context stack on every exit
\* path: if the handler raises an error while being traced, the stack after
\* the failure equals the stack before the call.
C27_CallPopsOnEveryExit ==
    [][CallExit => contextList' = hcall.base]_vars

(***************************************************************************)
(* The handler declarations.                                               *)
(***************************************************************************)
\* the handler functions the walk has handed to transformEventHandler
SeenHandlers == {seenProps[k].handler : k \in 1..Len(seenProps)}

\* C28: the eventHandlers list holds exactly one declaration per distinct
\* handler function seen during the compilation, each with its own Context
\* that no other declaration shares, and the generated handler names are
\* pairwise distinct.
C28_OneDeclarationPerHandler ==
    comp \in DOMAIN ctxs =>
        LET decls == ctxs[comp].eventHandlers IN
        /\ {decls[i].handler : i \in 1..Len(decls)} = SeenHandlers
        /\ \A i, j \in 1..Len(decls) :
              i # j =>
                 /\ decls[i].handler # decls[j].handler
                 /\ decls[i].context # decls[j].context
                 /\ ctxs[decls[i].context].name # ctxs[decls[j].context].name
                 /\ handlerFunctionName(ctxs[comp], decls[i], ctxs)
                       # handlerFunctionName(ctxs[comp], decls[j], ctxs)
        /\ \A i \in 1..Len(decls) :
              /\ decls[i].context \in DOMAIN ctxs \ {comp}
              /\ ctxs[decls[i].context].kind = "FunctionContext"

\* three buttons were given click handlers, two of them the same function:
\* two declarations, named by their positions
C28_Witness ==
    /\ pc = "done"
    /\ Len(seenProps) = 3
    /\ Cardinality(SeenHandlers) = 2
    /\ Len(ctxs[comp].eventHandlers) = 2
    /\ HandlerContext(1).name = "handle_button_click_0"
    /\ HandlerContext(2).name = "handle_button_click_1"

(***************************************************************************)
(* The update function.                                                    *)
(***************************************************************************)
\* C29: the generated update function never contains a call to itself,
\* whatever the component function does during the render trace, including
\* calling a state setter directly in the component body.
C29_UpdateNeverCallsItself ==
    (pc = "done" /\ result.status = "ok") =>
        CallsTo(result.reactCode.update, "_react_update") = {}

(***************************************************************************)
(* useState with a number.                                                 *)
(***************************************************************************)
\* C30: useState with a number initial value adds a numeric state declaration
\* only when an int, size or double value type is passed; with no value type,
\* or a non-numeric one, it fails with an unsupported-type error and leaves the
\* state list, locals and body unchanged.
C30_NumberStateNeedsNumericType ==
    [][\A type \in {"Int", "Size", "Double"} \cup OtherTypes :
          OpUseState(Num(7), type) =>
              IF type \in {"Int", "Size", "Double"}
              THEN /\ pc' = "render"
                   /\ Len(ctxs'[comp].state) = Len(ctxs[comp].state) + 1
                   /\ SubSeq(ctxs'[comp].state, 1, Len(ctxs[comp].state)) = ctxs[comp].state
                   /\ NewState.initializer.type = type
                   /\ NewState.initializer.initializer.kind = "NumericLiteral"
              ELSE /\ pc' = "failed"
                   /\ result' = [status |-> "error", message |-> "Unsupported type"]
                   /\ ctxs' = ctxs
    ]_vars

\* a double state was declared, then useState(7) without a value type failed
\* and left the declaration alone
C30_Witness ==
    /\ pc = "failed"
    /\ result = [status |-> "error", message |-> "Unsupported type"]
    /\ Len(ctxs[comp].state) = 1
    /\ ctxs[comp].state[1].initializer.type = "Double"
    /\ ctxs[comp].locals = << >>
    /\ ctxs[comp].body = << >>

====
